---- MODULE Spec2Model ----
(***************************************************************************)
(* A model of the cfa635 driver of audiotrond: the CRC helpers, the three  *)
(* goroutines Connect starts (buffer, decode, route), ReadReport, and      *)
(* RawCommand with the typed operations built on it.                       *)
(*                                                                         *)
(* Channels are unbuffered (make(chan T)), so a send and its receive are   *)
(* one joint step of the two goroutines.  Time is abstracted: a timer of   *)
(* 250 ms expires only while no channel hand-off is ready (Busy), i.e.     *)
(* time passes only while every goroutine of the driver is blocked; when a *)
(* byte arrives (BufferRead) and when callers call is up to the            *)
(* environment.  A timer that expires at the instant a hand-off becomes    *)
(* ready leads to the same states as one that expires just before.         *)
(***************************************************************************)
EXTENDS Integers, Sequences, FiniteSets, TLC

\* ------------------------------------------------------------------ bounds

\* Frames in a preloaded byte stream of FramerSpec.
MaxPkts == 2

\* Calls of the command API made in one run, over all callers.
MaxCalls == 2

\* Reports the device sends of its own accord in one run.
MaxReports == 1

\* The longest byte sequence taken through pushCRC and popCRC, save the two
\* fixed ones of CrcInputs.
MaxLen == 3

\* ------------------------------------------------------------ bit helpers

\* The bit of weight w of a ^ b and of a & b.
XorBit(a, b, w) == (((a \div w) % 2) + ((b \div w) % 2)) % 2

AndBit(a, b, w) == ((a \div w) % 2) * ((b \div w) % 2)

XorBits(a, b) ==
    1 * XorBit(a, b, 1) +
    2 * XorBit(a, b, 2) +
    4 * XorBit(a, b, 4) +
    8 * XorBit(a, b, 8) +
    16 * XorBit(a, b, 16) +
    32 * XorBit(a, b, 32) +
    64 * XorBit(a, b, 64) +
    128 * XorBit(a, b, 128) +
    256 * XorBit(a, b, 256) +
    512 * XorBit(a, b, 512) +
    1024 * XorBit(a, b, 1024) +
    2048 * XorBit(a, b, 2048) +
    4096 * XorBit(a, b, 4096) +
    8192 * XorBit(a, b, 8192) +
    16384 * XorBit(a, b, 16384) +
    32768 * XorBit(a, b, 32768)

\* a ^ b on 16 bits (the operands are evaluated once).
Xor16(a, b) == CHOOSE r \in {XorBits(x, y) : x \in {a}, y \in {b}} : TRUE

\* a & b on 8 bits.
And8(a, b) ==
    1 * AndBit(a, b, 1) +
    2 * AndBit(a, b, 2) +
    4 * AndBit(a, b, 4) +
    8 * AndBit(a, b, 8) +
    16 * AndBit(a, b, 16) +
    32 * AndBit(a, b, 32) +
    64 * AndBit(a, b, 64) +
    128 * AndBit(a, b, 128)

\* ------------------------------------------------------------------- CRC

\* CRC16_X_25: polynomial 0x1021 reflected (0x8408), init 0xFFFF,
\* reflected input and output, final xor 0xFFFF.
RECURSIVE crcShift(_, _)
crcShift(r, k) ==
    IF k = 0 THEN r
    ELSE CHOOSE v \in {crcShift(x, k - 1) :
                           x \in {IF r % 2 = 1 THEN Xor16(r \div 2, 33800) ELSE r \div 2}} : TRUE

crcTable == [b \in 0..255 |-> crcShift(b, 8)]

\* crc16.Update: one table step per byte.
RECURSIVE crcUpdate(_, _)
crcUpdate(crc, data) ==
    IF data = <<>> THEN crc
    ELSE CHOOSE v \in {crcUpdate(x, Tail(data)) :
                           x \in {Xor16(crc \div 256,
                                        crcTable[Xor16(crc, Head(data)) % 256])}} : TRUE

Checksum(data) == Xor16(crcUpdate(65535, data), 65535)

\* pushCRC that appends the CRC in big-endian order.
pushCRC_bigEndian(b) ==
    CHOOSE r \in {b \o <<c \div 256, c % 256>> : c \in {Checksum(b)}} : TRUE

pushCRC(b) ==
    CHOOSE r \in {b \o <<c % 256, c \div 256>> : c \in {Checksum(b)}} : TRUE

\* popCRC that compares the low byte of the CRC alone.
popCRC_lowByte(b) ==
    IF Len(b) < 2 THEN [b |-> b, ok |-> FALSE]
    ELSE LET end == Len(b) - 2
             body == SubSeq(b, 1, end)
         IN [b |-> body, ok |-> Checksum(body) % 256 = b[end + 1]]

\* popCRC without the comparison.
popCRC_unchecked(b) ==
    IF Len(b) < 2 THEN [b |-> b, ok |-> FALSE]
    ELSE [b |-> SubSeq(b, 1, Len(b) - 2), ok |-> TRUE]

popCRC(b) ==
    IF Len(b) < 2 THEN [b |-> b, ok |-> FALSE]
    ELSE LET end == Len(b) - 2
             body == SubSeq(b, 1, end)
         IN [b |-> body, ok |-> Checksum(body) = b[end + 1] + 256 * b[end + 2]]

\* --------------------------------------------------------------- packets

\* A packet travelling from decode to route and on to RawCommand is the Go
\* slice p[:len-2] over the array make([]byte, 0, maxPacketBytes) that decode
\* filled: it is kept here as the collected bytes, CRC included, and its
\* length is two less.
maxPacketBytes == 26

PktLen(q) == Len(q) - 2

Slice(q) == SubSeq(q, 1, Len(q) - 2)

\* The byte at 0-based index k of the backing array (zero where never written).
At(q, k) == IF k < Len(q) THEN q[k + 1] ELSE 0

\* ---------------------------------------------------------------- reports

\* decodeKeyActivity with the key taken as the code modulo 6.
decodeKeyActivity_mod6(b) ==
    IF b = 0 \/ b > 12 THEN [kind |-> "err", err |-> "errUnknownKey"]
    ELSE [kind |-> "ok", r |-> [t |-> "KeyActivity", K |-> b % 6, Pressed |-> b < 7]]

decodeKeyActivity(b) ==
    IF b = 0 \/ b > 12 THEN [kind |-> "err", err |-> "errUnknownKey"]
    ELSE [kind |-> "ok",
          r |-> [t |-> "KeyActivity",
                 K |-> IF b < 7 THEN b ELSE b - 6,
                 Pressed |-> b < 7]]

\* decodeFanSpeed that reports the hardware-absent sentinel as a reading.
decodeFanSpeed_noSentinel(b) ==
    [kind |-> "ok",
     r |-> [t |-> "FanSpeed", N |-> b[1], TachCycles |-> b[2],
            TimerTicks |-> 256 * b[3] + b[4]]]

decodeFanSpeed(b) ==
    IF b[2] = 0 /\ b[3] = 0 /\ b[4] = 0 THEN [kind |-> "err", err |-> "errFBSCAB"]
    ELSE [kind |-> "ok",
          r |-> [t |-> "FanSpeed", N |-> b[1], TachCycles |-> b[2],
                 TimerTicks |-> 256 * b[3] + b[4]]]

\* decodeTemperature that reads the raw value in little-endian order.
decodeTemperature_littleEndian(b) ==
    IF b[4] = 0 THEN [kind |-> "err", err |-> "errDOW"]
    ELSE [kind |-> "ok",
          r |-> [t |-> "Temperature", N |-> b[1], Celsius16 |-> b[2] + 256 * b[3]]]

\* Celsius is a float64, raw/16: kept as Celsius16 = 16 * Celsius.
decodeTemperature(b) ==
    IF b[4] = 0 THEN [kind |-> "err", err |-> "errDOW"]
    ELSE [kind |-> "ok",
          r |-> [t |-> "Temperature", N |-> b[1], Celsius16 |-> 256 * b[2] + b[3]]]

\* p[2] panics when len(p) <= 2; p[2:6] is legal up to the capacity and reads
\* the backing array.
decodeReport(q) ==
    CASE q[1] = 128 ->
           IF PktLen(q) <= 2 THEN [kind |-> "panic"]
           ELSE decodeKeyActivity(q[3])
      [] q[1] = 129 -> decodeFanSpeed(<<At(q, 2), At(q, 3), At(q, 4), At(q, 5)>>)
      [] q[1] = 130 -> decodeTemperature(<<At(q, 2), At(q, 3), At(q, 4), At(q, 5)>>)
      [] OTHER -> [kind |-> "err", err |-> "errUnknownReportType"]

\* A test of the top bit alone.
IsReportType_topBit(t) == And8(t, 128) = 128

\* p[0] & 0b1100_0000 >> 6 == 0b10
IsReportType(t) == And8(t, 192) \div 64 = 2

\* ------------------------------------------------------- typed operations

\* One call of the public API: the operation and its arguments.
Mk(op, a, b, g, data) == [op |-> op, a |-> a, b |-> b, g |-> g, data |-> data]

Valid(req, reqP, wantC, wantP) ==
    [err |-> "nil", req |-> req, reqP |-> reqP, wantC |-> wantC, wantP |-> wantP]

Invalid(err) ==
    [err |-> err, req |-> 0, reqP |-> <<>>, wantC |-> 0, wantP |-> <<>>]

Ping(payload) ==
    IF Len(payload) > 16 THEN Invalid("ErrPayloadTooLarge")
    ELSE Valid(0, payload, 64, payload)

Clear == Valid(6, <<>>, 70, <<>>)

SetCharacter(i, data) ==
    IF i < 0 \/ i > 7 THEN Invalid("ErrCGRAM")
    ELSE IF \E k \in 1..Len(data) : And8(data[k], 192) # 0 THEN Invalid("ErrSprite")
    ELSE Valid(9, <<i % 256>> \o data, 73, <<>>)

SetBacklight(lcd, keypad) ==
    IF lcd < 0 \/ lcd > 100 \/ keypad < 0 \/ keypad > 100 THEN Invalid("ErrBacklight")
    ELSE Valid(14, <<lcd % 256, keypad % 256>>, 78, <<>>)

\* A Put that builds its payload by appending col and row to data in place.
PutStores_inPlace(col, row, data) == <<col, row>>

\* Put, lines 598-603: what Put stores into the array under data, after the
\* end of data.  data is only resliced, and its bytes are copied by append
\* into payload, a new array of two bytes that append must grow: nothing.
PutStores(col, row, data) == <<>>

\* Put that sends all of data.
Put_noTruncate(col, row, data) ==
    IF col < 0 \/ col >= 20 \/ row < 0 \/ row >= 4 THEN Invalid("ErrPosition")
    ELSE Valid(31, <<col % 256, row % 256>> \o data, 95, <<>>)

\* Put that accepts col = 20.
Put_offByOne(col, row, data) ==
    IF col < 0 \/ col > 20 \/ row < 0 \/ row >= 4 THEN Invalid("ErrPosition")
    ELSE LET width == 20 - col
             d == IF Len(data) > width THEN SubSeq(data, 1, width) ELSE data
         IN Valid(31, <<col % 256, row % 256>> \o d, 95, <<>>)

Put(col, row, data) ==
    IF col < 0 \/ col >= 20 \/ row < 0 \/ row >= 4 THEN Invalid("ErrPosition")
    ELSE LET width == 20 - col
             d == IF Len(data) > width THEN SubSeq(data, 1, width) ELSE data
         IN Valid(31, <<col % 256, row % 256>> \o d, 95, <<>>)

SetLED(led, green, duty) ==
    IF led < 0 \/ led > 3 THEN Invalid("ErrLEDIndex")
    ELSE IF duty < 0 \/ duty > 100 THEN Invalid("ErrLEDDuty")
    ELSE LET i == (11 - 2 * led) % 256
         IN Valid(34, <<IF green THEN i ELSE (i + 1) % 256, duty % 256>>, 98, <<>>)

\* What a call asks of RawCommand, or the error its validation returns.
Request(call) ==
    CASE call.op = "Ping" -> Ping(call.data)
      [] call.op = "Clear" -> Clear
      [] call.op = "SetCharacter" -> SetCharacter(call.a, call.data)
      [] call.op = "SetBacklight" -> SetBacklight(call.a, call.b)
      [] call.op = "Put" -> Put(call.a, call.b, call.data)
      [] call.op = "SetLED" -> SetLED(call.a, call.g, call.b)
      [] OTHER -> Valid(call.a, call.data, 0, <<>>)

\* RawCommand, lines 506-508: the request packet.
RequestPacket(req, reqP) == pushCRC(<<req, Len(reqP) % 256>> \o reqP)

\* RawCommand, lines 524-528: what it returns for the packet q it received.
RawResult(q) ==
    IF PktLen(q) < 2 \/ PktLen(q) # 2 + At(q, 1)
    THEN [err |-> "ErrFailed", resp |-> 0, respP |-> <<>>]
    ELSE [err |-> "nil", resp |-> q[1], respP |-> SubSeq(q, 3, PktLen(q))]

\* simple that compares the response code only.
simple_codeOnly(raw, wantC, wantP) ==
    IF raw.err # "nil" THEN raw.err
    ELSE IF raw.resp # wantC THEN "ErrFailed"
         ELSE "nil"

\* simple: the error a typed operation returns for RawCommand's result.
simple(raw, wantC, wantP) ==
    IF raw.err # "nil" THEN raw.err
    ELSE IF raw.resp # wantC
            \/ ((Len(wantP) # 0 \/ Len(raw.respP) # 0) /\ raw.respP # wantP)
         THEN "ErrFailed"
         ELSE "nil"

\* What a call returns: RawCommand's own triple for a direct call, the
\* typed operation's error otherwise.
Outcome(call, req, raw) ==
    [call |-> call,
     raw |-> raw,
     err |-> IF call.op = "RawCommand" THEN raw.err
             ELSE simple(raw, req.wantC, req.wantP)]

\* ------------------------------------------------------------------ state

VARIABLES
    wire,       \* bytes the device has sent that ReadByte has not returned yet
    sent,       \* history: the frames the device has put on the wire, in order
    bufPc,      \* buffer: "read" (in ReadByte) or "send" (at w <- b)
    bufB,       \* buffer: the byte b it holds
    decPc,      \* decode: "type", "length", "body" (its receives), "send"
    p,          \* decode: the bytes collected for the current packet
    length,     \* decode: the length byte
    i,          \* decode: the loop counter of the data/CRC loop
    timedout,   \* decode: the time.After channel: "none", "armed", "drained"
    delivered,  \* history: the packets decode has sent on the packets channel
    expired,    \* history: a time.After of decode has fired
    rtPc,       \* route: "recv", "sendReport", "sendResponse", "panic"
    rtMsg,      \* route: the report or response it is sending
    rdPc,       \* the ReadReport caller: "idle" or "recv"
    got,        \* history: the reports its ReadReport calls returned, each with
                \* the caller that was waiting in RawCommand's select meanwhile
    pc,         \* each command caller: "idle", "lock", "write", "select"
    cur,        \* each command caller: its call in progress
    mu,         \* Module.mu: its holder, or NoOne
    results,    \* history: what each caller's calls returned
    written,    \* history: the request packets written to the transport
    devQ,       \* device: responses to requests it has not answered yet
    nReports,   \* device: reports sent so far
    menu,       \* the calls each caller may make (fixed by Init)
    upd,        \* the Update call: its arguments, its row y and where it is
    eof,        \* the transport returns io.EOF once the bytes of wire are read
    trip,       \* a byte sequence taken through pushCRC and popCRC
    enc,        \* a string taken through the Transformer of NewEncoder
    late        \* history: a command timed out before its answer was framed

pipeVars == <<wire, sent, bufPc, bufB, decPc, p, length, i, timedout, delivered, expired>>
routeVars == <<rtPc, rtMsg>>
readVars == <<rdPc, got>>
cmdVars == <<pc, cur, mu, results, written, late>>
devVars == <<devQ, nReports, menu>>
restVars == <<upd, eof, trip, enc>>
vars == <<pipeVars, routeVars, readVars, cmdVars, devVars, restVars>>

Callers == {1, 2}
NoOne == 0
NoCall == [call |-> Mk("none", 0, 0, FALSE, <<>>), req |-> Invalid("none"), pkt |-> <<>>]

\* No string in transliteration.
NoEncode == [pc |-> "none", src |-> <<>>, rest |-> <<>>, dst |-> <<>>, err |-> "nil"]

\* No Update call and no CRC round trip in progress.
NoUpdate == [pc |-> "none", old |-> <<>>, new |-> <<>>, y |-> 0, puts |-> <<>>, ret |-> "none"]
NoTrip ==
    [pc |-> "none", b |-> <<>>, pushed |-> <<>>, bit |-> -1, popped |-> <<>>, ok |-> FALSE]

\* A goroutine that panics ends the process.
Alive == rtPc # "panic"

\* A channel send has met its receive, or a receiver waits on a closed
\* channel: some goroutine can run without time passing.
Busy ==
    \/ bufPc = "send" /\ decPc \in {"type", "length", "body"}
    \/ decPc = "send" /\ rtPc = "recv"
    \/ rtPc = "sendReport" /\ rdPc = "recv"
    \/ rtPc = "sendResponse" /\ \E c \in Callers : pc[c] = "select"
    \/ bufPc = "done" /\ decPc \in {"type", "length", "body"}
    \/ decPc = "done" /\ rtPc = "recv"
    \/ rtPc = "done" /\ (rdPc = "recv" \/ \E c \in Callers : pc[c] = "select")

\* ----------------------------------------------------------------- buffer

\* buffer, line 40: ReadByte returns the next byte of the transport.
BufferRead ==
    /\ Alive
    /\ bufPc = "read"
    /\ wire # <<>>
    /\ bufB' = Head(wire)
    /\ wire' = Tail(wire)
    /\ bufPc' = "send"
    /\ UNCHANGED <<sent, decPc, p, length, i, timedout, delivered, expired>>
    /\ UNCHANGED <<routeVars, readVars, cmdVars, devVars, restVars>>

\* ----------------------------------------------------------------- decode

\* decode, lines 101-107: after the data/CRC loop.
AfterLoop(q) ==
    IF popCRC(q).ok
    THEN /\ decPc' = "send"
         /\ p' = q
         /\ UNCHANGED <<length>>
    ELSE /\ decPc' = "type"
         /\ p' = <<>>
         /\ length' = 0

\* decode, lines 88-99: after one pass of the loop body that left q collected.
LoopStep(q) ==
    IF i + 1 < length + 2
    THEN /\ i' = i + 1
         /\ p' = q
         /\ decPc' = "body"
         /\ UNCHANGED <<length>>
    ELSE /\ i' = 0
         /\ AfterLoop(q)

\* decode, lines 60-67: typ, ok := <-bytes, then time.After(timeout).
DecodeType ==
    /\ Alive
    /\ decPc = "type"
    /\ bufPc = "send"
    /\ bufPc' = "read"
    /\ p' = <<bufB>>
    /\ timedout' = "armed"
    /\ decPc' = "length"
    /\ UNCHANGED <<wire, sent, bufB, length, i, delivered, expired>>
    /\ UNCHANGED <<routeVars, readVars, cmdVars, devVars, restVars>>

\* DecodeLength without the length > 22 test.
DecodeLength_noLimit ==
    /\ Alive
    /\ decPc = "length"
    /\ bufPc = "send"
    /\ bufPc' = "read"
    /\ decPc' = "body"
    /\ p' = Append(p, bufB)
    /\ length' = bufB
    /\ UNCHANGED <<wire, sent, bufB, i, timedout, delivered, expired>>
    /\ UNCHANGED <<routeVars, readVars, cmdVars, devVars, restVars>>

\* decode, lines 76-85: case length, ok = <-bytes.
DecodeLength ==
    /\ Alive
    /\ decPc = "length"
    /\ bufPc = "send"
    /\ bufPc' = "read"
    /\ IF bufB > 22
       THEN /\ decPc' = "type"
            /\ p' = <<>>
            /\ length' = 0
            /\ timedout' = "none"
       ELSE /\ decPc' = "body"
            /\ p' = Append(p, bufB)
            /\ length' = bufB
            /\ UNCHANGED timedout
    /\ UNCHANGED <<wire, sent, bufB, i, delivered, expired>>
    /\ UNCHANGED <<routeVars, readVars, cmdVars, devVars, restVars>>

\* decode, lines 72-74: case <-timedout of the length select; continue
\* restarts the Outer loop.
DecodeLengthTimeout ==
    /\ Alive
    /\ decPc = "length"
    /\ timedout = "armed"
    /\ ~Busy
    /\ decPc' = "type"
    /\ p' = <<>>
    /\ length' = 0
    /\ timedout' = "none"
    /\ expired' = TRUE
    /\ UNCHANGED <<wire, sent, bufPc, bufB, i, delivered>>
    /\ UNCHANGED <<routeVars, readVars, cmdVars, devVars, restVars>>

\* DecodeBody with a timer started afresh for each byte.
DecodeBody_perByte ==
    /\ Alive
    /\ decPc = "body"
    /\ bufPc = "send"
    /\ bufPc' = "read"
    /\ LoopStep(Append(p, bufB))
    /\ timedout' = IF i + 1 < length + 2 THEN "armed" ELSE "none"
    /\ UNCHANGED <<wire, sent, bufB, delivered, expired>>
    /\ UNCHANGED <<routeVars, readVars, cmdVars, devVars, restVars>>

\* decode, lines 93-98: case b, ok := <-bytes of the data/CRC loop.
DecodeBody ==
    /\ Alive
    /\ decPc = "body"
    /\ bufPc = "send"
    /\ bufPc' = "read"
    /\ LoopStep(Append(p, bufB))
    /\ timedout' = IF i + 1 < length + 2 THEN timedout ELSE "none"
    /\ UNCHANGED <<wire, sent, bufB, delivered, expired>>
    /\ UNCHANGED <<routeVars, readVars, cmdVars, devVars, restVars>>

\* decode, lines 90-92: case <-timedout of the data/CRC loop.  The continue
\* is inside the for loop, so it continues that loop: i++ and the next
\* select, with no byte appended.  The time.After channel has delivered its one
\* value and never fires again.
DecodeBodyTimeout ==
    /\ Alive
    /\ decPc = "body"
    /\ timedout = "armed"
    /\ ~Busy
    /\ LoopStep(p)
    /\ timedout' = IF i + 1 < length + 2 THEN "drained" ELSE "none"
    /\ expired' = TRUE
    /\ UNCHANGED <<wire, sent, bufPc, bufB, delivered>>
    /\ UNCHANGED <<routeVars, readVars, cmdVars, devVars, restVars>>

\* ------------------------------------------------------------------ route

\* route, lines 116-126: what route does with the packet q it received.
Classify(q) ==
    IF IsReportType(q[1])
    THEN LET d == decodeReport(q)
         IN CASE d.kind = "ok" -> [pc |-> "sendReport", msg |-> d.r]
              [] d.kind = "err" -> [pc |-> "recv", msg |-> <<>>]
              [] OTHER -> [pc |-> "panic", msg |-> <<>>]
    ELSE [pc |-> "sendResponse", msg |-> q]

\* decode, line 107 with route, line 115: packets <- p meets range packets.
DecodeSend ==
    /\ Alive
    /\ decPc = "send"
    /\ rtPc = "recv"
    /\ delivered' = Append(delivered, p)
    /\ rtPc' = Classify(p).pc
    /\ rtMsg' = Classify(p).msg
    /\ decPc' = "type"
    /\ p' = <<>>
    /\ length' = 0
    /\ UNCHANGED <<wire, sent, bufPc, bufB, i, timedout, expired>>
    /\ UNCHANGED <<readVars, cmdVars, devVars, restVars>>

\* ------------------------------------------------------------- ReadReport

\* The caller that holds mu and is blocked in RawCommand's select, if any.
Waiting == IF mu # NoOne /\ pc[mu] = "select" THEN mu ELSE NoOne

\* ReadReport, line 501: the caller enters <-m.reports.
ReadReportCall ==
    /\ Alive
    /\ rdPc = "idle"
    /\ rdPc' = "recv"
    /\ UNCHANGED <<got, pipeVars, routeVars, cmdVars, devVars, restVars>>

\* ReadReport taking the command lock for its receive.
ReadReportRecv_locked ==
    /\ Alive
    /\ mu = NoOne
    /\ rdPc = "recv"
    /\ rtPc = "sendReport"
    /\ got' = Append(got, [r |-> rtMsg, during |-> Waiting])
    /\ rdPc' = "idle"
    /\ rtPc' = "recv"
    /\ rtMsg' = <<>>
    /\ UNCHANGED <<pipeVars, cmdVars, devVars, restVars>>

\* route, line 123 with ReadReport, line 501: reports <- r meets <-m.reports.
ReadReportRecv ==
    /\ Alive
    /\ rdPc = "recv"
    /\ rtPc = "sendReport"
    /\ got' = Append(got, [r |-> rtMsg, during |-> Waiting])
    /\ rdPc' = "idle"
    /\ rtPc' = "recv"
    /\ rtMsg' = <<>>
    /\ UNCHANGED <<pipeVars, cmdVars, devVars, restVars>>

\* ----------------------------------------------------------------- device

\* The CFA635's answer to a request packet: the request code | 0x40, with the
\* payload echoed for a ping and empty otherwise.
DeviceResponse(pkt) ==
    IF pkt[1] = 0 THEN pushCRC(<<64>> \o SubSeq(pkt, 2, Len(pkt) - 2))
    ELSE pushCRC(<<(pkt[1] % 64) + 64, 0>>)

\* A key activity report packet.
KeyPkt(k) == pushCRC(<<128, 1, k>>)

DeviceReports == {KeyPkt(3)}

\* The device answers the oldest request it has not answered.
DeviceAnswer ==
    /\ devQ # <<>>
    /\ wire' = wire \o Head(devQ)
    /\ sent' = Append(sent, Head(devQ))
    /\ devQ' = Tail(devQ)
    /\ UNCHANGED <<bufPc, bufB, decPc, p, length, i, timedout, delivered, expired>>
    /\ UNCHANGED <<nReports, menu, restVars, routeVars, readVars, cmdVars>>

\* The device sends a report of its own accord.
DeviceReport ==
    /\ nReports < MaxReports
    /\ \E f \in DeviceReports :
          /\ wire' = wire \o f
          /\ sent' = Append(sent, f)
    /\ nReports' = nReports + 1
    /\ UNCHANGED <<bufPc, bufB, decPc, p, length, i, timedout, delivered, expired>>
    /\ UNCHANGED <<devQ, menu, restVars, routeVars, readVars, cmdVars>>

\* Responses other than the right one r: the error response (type | 0xC0), the
\* response to another command, a payload with a byte too many, and for a
\* response with a payload a payload with its first byte changed or none.
WrongResponses(r) ==
    LET code == r[1]
        n == r[2]
        pay == SubSeq(r, 3, 2 + n)
    IN {pushCRC(<<code + 128, n>> \o pay),
        pushCRC(<<IF code = 70 THEN 64 ELSE 70, n>> \o pay),
        pushCRC(<<code, n + 1>> \o pay \o <<7>>)}
       \cup (IF n = 0 THEN {}
             ELSE {pushCRC(<<code, n, (pay[1] + 1) % 256>> \o Tail(pay)),
                   pushCRC(<<code, 0>>)})

\* The device answers the oldest request with a response that is not the
\* right one.
DeviceAnswerWrong ==
    /\ devQ # <<>>
    /\ \E r \in WrongResponses(Head(devQ)) :
          /\ wire' = wire \o r
          /\ sent' = Append(sent, r)
    /\ devQ' = Tail(devQ)
    /\ UNCHANGED <<bufPc, bufB, decPc, p, length, i, timedout, delivered, expired>>
    /\ UNCHANGED <<nReports, menu, restVars, routeVars, readVars, cmdVars>>

\* --------------------------------------------------------------- commands

NCalls == Len(results[1]) + Len(results[2])
             + Cardinality({c \in Callers : pc[c] # "idle"})

\* A caller calls a typed operation or RawCommand: the validation of lines
\* 547, 565-572, 583, 594, 612-617 and the packet of lines 506-508.
Invoke(c, call) ==
    LET r == Request(call) IN
    IF r.err # "nil"
    THEN /\ results' = [results EXCEPT
               ![c] = Append(@, [call |-> call,
                                 raw |-> [err |-> "none", resp |-> 0, respP |-> <<>>],
                                 err |-> r.err])]
         /\ UNCHANGED <<pc, cur>>
    ELSE /\ pc' = [pc EXCEPT ![c] = "lock"]
         /\ cur' = [cur EXCEPT ![c] = [call |-> call, req |-> r,
                                       pkt |-> RequestPacket(r.req, r.reqP)]]
         /\ UNCHANGED results

\* A caller makes one of the calls of its menu.
Call(c) ==
    /\ Alive
    /\ pc[c] = "idle"
    /\ NCalls < MaxCalls
    /\ \E call \in menu[c] : Invoke(c, call)
    /\ UNCHANGED <<mu, written, late, pipeVars, routeVars, readVars, devVars, restVars>>

\* Lock that does not wait for the holder.
Lock_noExclusion(c) ==
    /\ Alive
    /\ pc[c] = "lock"
    /\ mu' = c
    /\ pc' = [pc EXCEPT ![c] = "write"]
    /\ UNCHANGED <<cur, results, written, late, pipeVars, routeVars, readVars, devVars, restVars>>

\* RawCommand, line 510: m.mu.Lock().
Lock(c) ==
    /\ Alive
    /\ pc[c] = "lock"
    /\ mu = NoOne
    /\ mu' = c
    /\ pc' = [pc EXCEPT ![c] = "write"]
    /\ UNCHANGED <<cur, results, written, late, pipeVars, routeVars, readVars, devVars, restVars>>

\* Write that first discards a response left over from an earlier request.
Write_drain(c) ==
    /\ Alive
    /\ pc[c] = "write"
    /\ written' = Append(written, cur[c].pkt)
    /\ devQ' = Append(devQ, DeviceResponse(cur[c].pkt))
    /\ pc' = [pc EXCEPT ![c] = "select"]
    /\ rtPc' = IF rtPc = "sendResponse" THEN "recv" ELSE rtPc
    /\ rtMsg' = IF rtPc = "sendResponse" THEN <<>> ELSE rtMsg
    /\ UNCHANGED <<cur, mu, results, late, nReports, menu, restVars>>
    /\ UNCHANGED <<pipeVars, readVars>>

\* RawCommand, line 512: m.w.Write(p) succeeds; the device has the request.
Write(c) ==
    /\ Alive
    /\ pc[c] = "write"
    /\ written' = Append(written, cur[c].pkt)
    /\ devQ' = Append(devQ, DeviceResponse(cur[c].pkt))
    /\ pc' = [pc EXCEPT ![c] = "select"]
    /\ UNCHANGED <<cur, mu, results, late, nReports, menu, restVars>>
    /\ UNCHANGED <<pipeVars, routeVars, readVars>>

\* A call returns: its result is recorded and the deferred Unlock runs.
Return(c, raw) ==
    /\ results' = [results EXCEPT ![c] = Append(@, Outcome(cur[c].call, cur[c].req, raw))]
    /\ cur' = [cur EXCEPT ![c] = NoCall]
    /\ pc' = [pc EXCEPT ![c] = "idle"]
    /\ mu' = NoOne

\* A failed Write that returns with the mutex still held.
WriteFail_noUnlock(c) ==
    /\ Alive
    /\ pc[c] = "write"
    /\ results' = [results EXCEPT ![c] =
                      Append(@, Outcome(cur[c].call, cur[c].req,
                                        [err |-> "write error", resp |-> 0, respP |-> <<>>]))]
    /\ cur' = [cur EXCEPT ![c] = NoCall]
    /\ pc' = [pc EXCEPT ![c] = "idle"]
    /\ UNCHANGED <<mu, written, late, pipeVars, routeVars, readVars, devVars, restVars>>

\* RawCommand, lines 512-514: m.w.Write(p) fails.
WriteFail(c) ==
    /\ Alive
    /\ pc[c] = "write"
    /\ Return(c, [err |-> "write error", resp |-> 0, respP |-> <<>>])
    /\ UNCHANGED <<written, late, pipeVars, routeVars, readVars, devVars, restVars>>

\* CmdRecv that leaves the packet with the router.
CmdRecv_keep(c) ==
    /\ Alive
    /\ pc[c] = "select"
    /\ rtPc = "sendResponse"
    /\ Return(c, RawResult(rtMsg))
    /\ UNCHANGED <<written, late, pipeVars, routeVars, readVars, devVars, restVars>>

\* route, line 125 with RawCommand, line 518: responses <- p meets
\* q = <-m.responses.
CmdRecv(c) ==
    /\ Alive
    /\ pc[c] = "select"
    /\ rtPc = "sendResponse"
    /\ Return(c, RawResult(rtMsg))
    /\ rtPc' = "recv"
    /\ rtMsg' = <<>>
    /\ UNCHANGED <<written, late, pipeVars, readVars, devVars, restVars>>

\* The answer to the request in flight has been sent by the device and framed
\* by decode.
AnswerFramed ==
    /\ devQ = <<>>
    /\ wire = <<>>
    /\ bufPc = "read"
    /\ decPc = "send"

\* RawCommand that writes its request again when it times out.
CmdTimeout_resend(c) ==
    /\ Alive
    /\ pc[c] = "select"
    /\ ~Busy
    /\ Return(c, [err |-> "ErrTimeout", resp |-> 0, respP |-> <<>>])
    /\ written' = Append(written, cur[c].pkt)
    /\ late' = (late \/ ~AnswerFramed)
    /\ UNCHANGED <<pipeVars, routeVars, readVars, devVars, restVars>>

\* A select without the time.After case.
CmdTimeout_never(c) ==
    /\ FALSE
    /\ pc[c] = "select"
    /\ UNCHANGED vars

\* RawCommand, lines 520-521: case <-time.After(timeout).
CmdTimeout(c) ==
    /\ Alive
    /\ pc[c] = "select"
    /\ ~Busy
    /\ Return(c, [err |-> "ErrTimeout", resp |-> 0, respP |-> <<>>])
    /\ late' = (late \/ ~AnswerFramed)
    /\ UNCHANGED <<written, pipeVars, routeVars, readVars, devVars, restVars>>

\* --------------------------------------------------------- end of input

\* What ReadReport returns once reports is closed.
NilReport == [t |-> "nil"]

\* buffer, lines 40-43 and 38: ReadByte returns io.EOF; the deferred close(w)
\* closes bytes.
BufferEOF ==
    /\ Alive
    /\ bufPc = "read"
    /\ wire = <<>>
    /\ eof
    /\ bufPc' = "done"
    /\ UNCHANGED <<wire, sent, bufB, decPc, p, length, i, timedout, delivered, expired>>
    /\ UNCHANGED <<routeVars, readVars, cmdVars, devVars, restVars>>

\* A decode that starts over when bytes is closed.
DecodeClosed_restart ==
    /\ Alive
    /\ decPc \in {"type", "length", "body"}
    /\ bufPc = "done"
    /\ decPc' = "type"
    /\ p' = <<>>
    /\ length' = 0
    /\ i' = 0
    /\ timedout' = "none"
    /\ UNCHANGED <<wire, sent, bufPc, bufB, delivered, expired>>
    /\ UNCHANGED <<routeVars, readVars, cmdVars, devVars, restVars>>

\* decode, lines 61-63, 77-79, 94-96 and 54: a receive from the closed bytes
\* gives !ok; decode leaves its loop and the deferred close(packets) runs.
DecodeClosed ==
    /\ Alive
    /\ decPc \in {"type", "length", "body"}
    /\ bufPc = "done"
    /\ decPc' = "done"
    /\ p' = <<>>
    /\ length' = 0
    /\ i' = 0
    /\ timedout' = "none"
    /\ UNCHANGED <<wire, sent, bufPc, bufB, delivered, expired>>
    /\ UNCHANGED <<routeVars, readVars, cmdVars, devVars, restVars>>

\* route, lines 113-115: range packets ends on the closed channel and the
\* deferred closes of responses and reports run.
RouteClosed ==
    /\ Alive
    /\ rtPc = "recv"
    /\ decPc = "done"
    /\ rtPc' = "done"
    /\ UNCHANGED <<rtMsg, pipeVars, readVars, cmdVars, devVars, restVars>>

\* ReadReport, line 501, on the closed reports: it returns nil, and the
\* application's loop over ReadReport ends.
ReadReportNil ==
    /\ Alive
    /\ rdPc = "recv"
    /\ rtPc = "done"
    /\ got' = Append(got, [r |-> NilReport, during |-> Waiting])
    /\ rdPc' = "closed"
    /\ UNCHANGED <<pipeVars, routeVars, cmdVars, devVars, restVars>>

\* RawCommand, lines 518 and 524-526: the receive from the closed responses
\* gives a nil q, and RawCommand returns ErrFailed.
CmdRecvClosed(c) ==
    /\ Alive
    /\ pc[c] = "select"
    /\ rtPc = "done"
    /\ Return(c, [err |-> "ErrFailed", resp |-> 0, respP |-> <<>>])
    /\ UNCHANGED <<written, late, pipeVars, routeVars, readVars, devVars, restVars>>

\* ---------------------------------------------------------------- charset

\* NewEncoder, lines 35-43: the code points of the range table, which the
\* Transformer copies (each is one UTF-8 byte, the code point itself).
identityMapped_ascii == 0..127

identityMapped == (32..35) \cup (37..63) \cup (65..90) \cup (97..122)

\* utf8.RuneError, U+FFFD: what utf8.DecodeRune returns for the code point
\* U+FFFD as well as for bytes that are not UTF-8.
RuneError == 65533

\* The switch of encode1 on code points, arm by arm, and its final return of
\* 0x60.  A rune literal of the switch is written here as its code point.
encode1(c) ==
    CASE c \in {9205, 9654, 9656, 9658, 11208} -> 16
      [] c \in {9204, 9664, 11207} -> 17
      [] c \in {9195} -> 18
      [] c \in {9196} -> 19
      [] c \in {171, 8810, 12298} -> 20
      [] c \in {187, 8811, 12299} -> 21
      [] c \in {8598, 11017, 11110} -> 22
      [] c \in {8599, 11016, 11111} -> 23
      [] c \in {8601, 11019, 11113} -> 24
      [] c \in {8600, 11018, 11112} -> 25
      [] c \in {9206, 9650, 9652} -> 26
      [] c \in {9207, 9660, 9662} -> 27
      [] c \in {8626, 8629, 9166, 11152} -> 28
      [] c \in {94, 708, 710, 8963} -> 29
      [] c \in {7515} -> 30
      [] c \in {} -> 32
      [] c \in {} -> 33
      [] c \in {698, 733, 1524, 8243, 12291} -> 34
      [] c \in {8468, 8983, 9839, 10723} -> 35
      [] c \in {164} -> 36
      [] c \in {1642, 8274} -> 37
      [] c \in {697, 700, 712, 1523, 8216, 8217, 8242, 42892} -> 39
      [] c \in {1645, 8727, 9913} -> 42
      [] c \in {726} -> 43
      [] c \in {8218} -> 44
      [] c \in {727, 8208, 8209, 8210, 8211, 8722, 65937} -> 45
      [] c \in {8228} -> 46
      [] c \in {8260, 8725, 10187} -> 47
      [] c \in {1417, 1475, 4961, 8758, 42889} -> 58
      [] c \in {894} -> 59
      [] c \in {706, 8249, 9001, 10216, 12296} -> 60
      [] c \in {5120, 11840, 12448, 42890, 65936, 129008} -> 61
      [] c \in {707, 8250, 9002, 10217, 12297} -> 62
      [] c \in {161} -> 64
      [] c \in {196} -> 91
      [] c \in {214} -> 92
      [] c \in {209} -> 93
      [] c \in {220} -> 94
      [] c \in {167} -> 93
      [] c \in {191} -> 96
      [] c \in {228} -> 123
      [] c \in {246} -> 124
      [] c \in {241} -> 125
      [] c \in {252} -> 126
      [] c \in {224} -> 127
      [] c \in {176, 730, 7484, 7506, 8304} -> 128
      [] c \in {185} -> 129
      [] c \in {178} -> 130
      [] c \in {179} -> 131
      [] c \in {8308} -> 132
      [] c \in {8309} -> 133
      [] c \in {8310} -> 134
      [] c \in {8311} -> 135
      [] c \in {8312} -> 136
      [] c \in {8313} -> 137
      [] c \in {189} -> 138
      [] c \in {188} -> 139
      [] c \in {177} -> 140
      [] c \in {8805} -> 141
      [] c \in {8804} -> 142
      [] c \in {181, 956} -> 143
      [] c \in {9834, 119136} -> 144
      [] c \in {9836} -> 145
      [] c \in {128276, 128365} -> 146
      [] c \in {9829, 10084, 128153, 128154, 128155, 128156, 128420, 129294, 129505} -> 147
      [] c \in {9670, 9830} -> 148
      [] c \in {66434} -> 149
      [] c \in {12300} -> 150
      [] c \in {12301} -> 151
      [] c \in {8220, 10077} -> 152
      [] c \in {8221, 10078} -> 153
      [] c \in {593, 945} -> 156
      [] c \in {603, 949} -> 157
      [] c \in {948} -> 158
      [] c \in {8734} -> 159
      [] c \in {64} -> 160
      [] c \in {163} -> 161
      [] c \in {36} -> 162
      [] c \in {165} -> 163
      [] c \in {232} -> 164
      [] c \in {233} -> 165
      [] c \in {249} -> 166
      [] c \in {236} -> 167
      [] c \in {242} -> 168
      [] c \in {199} -> 169
      [] c \in {7510} -> 170
      [] c \in {216} -> 171
      [] c \in {248} -> 172
      [] c \in {691} -> 173
      [] c \in {197, 8491} -> 174
      [] c \in {229} -> 175
      [] c \in {916, 8710, 8962} -> 176
      [] c \in {162, 572, 8373} -> 177
      [] c \in {934} -> 178
      [] c \in {964} -> 179
      [] c \in {955} -> 180
      [] c \in {937, 8486} -> 181
      [] c \in {960} -> 182
      [] c \in {936} -> 183
      [] c \in {425, 931, 8721} -> 184
      [] c \in {920, 1012, 952} -> 185
      [] c \in {926} -> 186
      [] c \in {9210, 9899, 11044, 128308} -> 187
      [] c \in {198} -> 188
      [] c \in {230, 1237} -> 189
      [] c \in {223, 946} -> 190
      [] c \in {201} -> 191
      [] c \in {915} -> 192
      [] c \in {923} -> 193
      [] c \in {928, 8719} -> 194
      [] c \in {933, 979} -> 195
      [] c \in {95, 717} -> 196
      [] c \in {200} -> 197
      [] c \in {202} -> 198
      [] c \in {234} -> 199
      [] c \in {231} -> 200
      [] c \in {287, 487} -> 201
      [] c \in {350} -> 202
      [] c \in {351, 537} -> 203
      [] c \in {304} -> 204
      [] c \in {305} -> 205
      [] c \in {126, 732, 8275, 8764, 12316, 65374} -> 206
      [] c \in {9671, 9674, 9826} -> 207
      [] c \in {402} -> 213
      [] c \in {} -> 214
      [] c \in {} -> 215
      [] c \in {} -> 216
      [] c \in {} -> 217
      [] c \in {} -> 218
      [] c \in {8359} -> 219
      [] c \in {9702} -> 220
      [] c \in {8226, 8901} -> 221
      [] c \in {8593, 11014, 11105} -> 222
      [] c \in {8594, 11157, 11106} -> 223
      [] c \in {8595, 11015, 11107} -> 224
      [] c \in {8592, 11013, 11104} -> 225
      [] c \in {193} -> 226
      [] c \in {205} -> 227
      [] c \in {211} -> 228
      [] c \in {218} -> 229
      [] c \in {221} -> 230
      [] c \in {225} -> 231
      [] c \in {237} -> 232
      [] c \in {243} -> 233
      [] c \in {250} -> 234
      [] c \in {253} -> 235
      [] c \in {212} -> 236
      [] c \in {244} -> 237
      [] c \in {268} -> 240
      [] c \in {282} -> 241
      [] c \in {344} -> 242
      [] c \in {352} -> 243
      [] c \in {381} -> 244
      [] c \in {269} -> 245
      [] c \in {283} -> 246
      [] c \in {345} -> 247
      [] c \in {353} -> 248
      [] c \in {382} -> 249
      [] c \in {91} -> 250
      [] c \in {92} -> 251
      [] c \in {93} -> 252
      [] c \in {123} -> 253
      [] c \in {124} -> 254
      [] c \in {125} -> 255
      [] OTHER -> 96

\* The Transformer of NewEncoder on the next code point of the string: a code
\* point of identityMapped is copied, any other goes to encode.Transform,
\* which stops with transform.ErrShortSrc when DecodeRune returns RuneError
\* and otherwise writes the byte of encode1.
Transform ==
    /\ enc.pc = "run"
    /\ enc.rest # <<>>
    /\ LET r == Head(enc.rest) IN
       enc' = IF r \in identityMapped
                  THEN [enc EXCEPT !.rest = Tail(enc.rest), !.dst = Append(enc.dst, r)]
              ELSE IF r = RuneError
                  THEN [enc EXCEPT !.pc = "done", !.err = "ErrShortSrc"]
              ELSE [enc EXCEPT !.rest = Tail(enc.rest),
                               !.dst = Append(enc.dst, encode1(r))]
    /\ UNCHANGED <<upd, eof, trip>>
    /\ UNCHANGED <<pipeVars, routeVars, readVars, cmdVars, devVars>>

\* The source is exhausted: the Transformer returns without an error.
TransformEnd ==
    /\ enc.pc = "run"
    /\ enc.rest = <<>>
    /\ enc' = [enc EXCEPT !.pc = "done"]
    /\ UNCHANGED <<upd, eof, trip>>
    /\ UNCHANGED <<pipeVars, routeVars, readVars, cmdVars, devVars>>

\* ------------------------------------------------------------- round trip

\* pushCRC applied to the byte sequence b.
TripPush ==
    /\ trip.pc = "push"
    /\ trip' = [trip EXCEPT !.pc = "pop", !.pushed = pushCRC(trip.b)]
    /\ UNCHANGED <<upd, eof, enc>>
    /\ UNCHANGED <<pipeVars, routeVars, readVars, cmdVars, devVars>>

\* The sequence b with bit k flipped, bit 0 being the low bit of b[1].
FlipBit(b, k) ==
    [j \in 1..Len(b) |-> IF j = (k \div 8) + 1 THEN Xor16(b[j], 2 ^ (k % 8)) ELSE b[j]]

\* One bit of what pushCRC returned is flipped before popCRC sees it.
TripFlip ==
    /\ trip.pc = "pop"
    /\ trip.bit = -1
    /\ \E k \in 0..(8 * Len(trip.pushed) - 1) :
          trip' = [trip EXCEPT !.bit = k, !.pushed = FlipBit(trip.pushed, k)]
    /\ UNCHANGED <<upd, eof, enc>>
    /\ UNCHANGED <<pipeVars, routeVars, readVars, cmdVars, devVars>>

\* popCRC applied to what pushCRC returned.
TripPop ==
    /\ trip.pc = "pop"
    /\ trip' = [trip EXCEPT !.pc = "done",
                            !.popped = popCRC(trip.pushed).b,
                            !.ok = popCRC(trip.pushed).ok]
    /\ UNCHANGED <<upd, eof, enc>>
    /\ UNCHANGED <<pipeVars, routeVars, readVars, cmdVars, devVars>>

\* ----------------------------------------------------------------- Update

\* LCDState is [4][20]byte: here four rows of twenty cells, row y of a state
\* s being s[y + 1] and its cell x being s[y + 1][x + 1].
LCDRows == 4
LCDCols == 20

\* The caller that runs Update.
Updater == 1

\* Update, lines 78-79: the loop that advances first over equal cells.
RECURSIVE firstDiff(_, _, _)
firstDiff(o, n, first) ==
    IF first < LCDCols /\ n[first + 1] = o[first + 1]
    THEN firstDiff(o, n, first + 1)
    ELSE first

\* A last that stops at the first differing cell.
lastDiff_single(o, n, first, last) == first

\* A last that never moves from the end of the row.
lastDiff_rowEnd(o, n, first, last) == last

\* Update, lines 84-85: the loop that moves last back over equal cells.
RECURSIVE lastDiff(_, _, _, _)
lastDiff(o, n, first, last) ==
    IF last > first /\ n[last + 1] = o[last + 1]
    THEN lastDiff(o, n, first, last - 1)
    ELSE last

\* Update, line 86: new[y][first:last+1] is a slice of row y of new, of
\* capacity 20 - first.  The state new after the bytes st have been appended
\* in place to that slice, of n bytes: they land in the cells after it when
\* the capacity holds them, and in a new array otherwise.
Stored(new, y, first, n, st) ==
    IF st = <<>> \/ n + Len(st) > LCDCols - first THEN new
    ELSE [new EXCEPT ![y + 1] =
             [x \in 1..LCDCols |->
                 IF x > first + n /\ x <= first + n + Len(st)
                 THEN st[x - first - n] ELSE new[y + 1][x]]]

\* An Update that starts by writing the whole of row 0.
UpdateCall_redraw ==
    /\ Alive
    /\ upd.pc = "call"
    /\ LET call == Mk("Put", 0, 0, FALSE, upd.new[1]) IN
          /\ upd' = [upd EXCEPT !.pc = "put", !.y = 0, !.puts = Append(@, call)]
          /\ Invoke(Updater, call)
    /\ UNCHANGED <<eof, trip, enc>>
    /\ UNCHANGED <<mu, written, late, pipeVars, routeVars, readVars, devVars>>

\* Update, lines 71-75: equal states return nil at once.
UpdateCall ==
    /\ Alive
    /\ upd.pc = "call"
    /\ upd' = IF upd.old = upd.new
              THEN [upd EXCEPT !.pc = "done", !.ret = "nil"]
              ELSE [upd EXCEPT !.pc = "row", !.y = 0]
    /\ UNCHANGED <<eof, trip, enc>>
    /\ UNCHANGED <<pipeVars, routeVars, readVars, cmdVars, devVars>>

\* Update, lines 75-86: one pass of the loop over the rows, up to the call of
\* m.Put; line 91 after the last row.
UpdateRow ==
    /\ Alive
    /\ upd.pc = "row"
    /\ IF upd.y = LCDRows
       THEN /\ upd' = [upd EXCEPT !.pc = "done", !.ret = "nil"]
            /\ UNCHANGED <<pc, cur, results>>
       ELSE LET o == upd.old[upd.y + 1]
                n == upd.new[upd.y + 1]
                first == firstDiff(o, n, 0)
            IN IF first = LCDCols
               THEN /\ upd' = [upd EXCEPT !.y = @ + 1]
                    /\ UNCHANGED <<pc, cur, results>>
               ELSE LET last == lastDiff(o, n, first, LCDCols - 1)
                        call == Mk("Put", first, upd.y, FALSE,
                                   SubSeq(n, first + 1, last + 1))
                    IN /\ upd' = [upd EXCEPT
                                     !.pc = "put",
                                     !.puts = Append(@, call),
                                     !.new = Stored(@, upd.y, first, last - first + 1,
                                                    PutStores(first, upd.y, call.data))]
                       /\ Invoke(Updater, call)
    /\ UNCHANGED <<eof, trip, enc>>
    /\ UNCHANGED <<mu, written, late, pipeVars, routeVars, readVars, devVars>>

\* An Update that goes on to the next row whatever m.Put returned.
UpdateReturn_ignoreError ==
    /\ Alive
    /\ upd.pc = "put"
    /\ pc[Updater] = "idle"
    /\ upd' = [upd EXCEPT !.pc = "row", !.y = @ + 1]
    /\ UNCHANGED <<eof, trip, enc>>
    /\ UNCHANGED <<pipeVars, routeVars, readVars, cmdVars, devVars>>

\* Update, lines 86-88: m.Put has returned.
UpdateReturn ==
    /\ Alive
    /\ upd.pc = "put"
    /\ pc[Updater] = "idle"
    /\ LET err == results[Updater][Len(results[Updater])].err IN
          upd' = IF err # "nil"
                 THEN [upd EXCEPT !.pc = "done", !.ret = err]
                 ELSE [upd EXCEPT !.pc = "row", !.y = @ + 1]
    /\ UNCHANGED <<eof, trip, enc>>
    /\ UNCHANGED <<pipeVars, routeVars, readVars, cmdVars, devVars>>

\* --------------------------------------------------------- specifications

TypeOK ==
    /\ bufPc \in {"read", "send", "done"}
    /\ decPc \in {"type", "length", "body", "send", "done"}
    /\ timedout \in {"none", "armed", "drained"}
    /\ rtPc \in {"recv", "sendReport", "sendResponse", "panic", "done"}
    /\ rdPc \in {"idle", "recv", "closed"}
    /\ eof \in BOOLEAN
    /\ \A c \in Callers : pc[c] \in {"idle", "lock", "write", "select"}
    /\ mu \in Callers \cup {NoOne}
    /\ Len(p) <= maxPacketBytes

\* The state Connect leaves, for a transport that will deliver the bytes w and
\* callers that draw their calls from m.
Connected(w, frames, m) ==
    /\ wire = w
    /\ sent = frames
    /\ bufPc = "read"
    /\ bufB = 0
    /\ decPc = "type"
    /\ p = <<>>
    /\ length = 0
    /\ i = 0
    /\ timedout = "none"
    /\ delivered = <<>>
    /\ expired = FALSE
    /\ rtPc = "recv"
    /\ rtMsg = <<>>
    /\ rdPc = "idle"
    /\ got = <<>>
    /\ pc = [c \in Callers |-> "idle"]
    /\ cur = [c \in Callers |-> NoCall]
    /\ mu = NoOne
    /\ results = [c \in Callers |-> <<>>]
    /\ written = <<>>
    /\ devQ = <<>>
    /\ nReports = 0
    /\ menu = m
    /\ late = FALSE

\* Connected, with no Update call, an open transport and no CRC round trip.
InitWith(w, frames, m) ==
    /\ Connected(w, frames, m)
    /\ upd = NoUpdate
    /\ eof = FALSE
    /\ trip = NoTrip
    /\ enc = NoEncode

Pipeline ==
    \/ BufferRead
    \/ DecodeType
    \/ DecodeLength
    \/ DecodeBody
    \/ DecodeSend

FramerTimeouts ==
    \/ DecodeLengthTimeout
    \/ DecodeBodyTimeout

Reader ==
    \/ ReadReportCall
    \/ ReadReportRecv

Commands ==
    \E c \in Callers :
        \/ Call(c)
        \/ Lock(c)
        \/ Write(c)
        \/ WriteFail(c)
        \/ CmdRecv(c)
        \/ CmdTimeout(c)

Device ==
    \/ DeviceAnswer
    \/ DeviceReport

\* Two concurrent callers, each pinging with its own payload, a ReadReport
\* caller, and a device that answers and reports.  The device sends the bytes
\* of a packet without a pause of 250 ms, so decode's timer does not fire here;
\* FramerSpec covers the framer's timeouts.
PingMenu == [c \in Callers |-> {Mk("Ping", 0, 0, FALSE, <<c>>)}]

Init == InitWith(<<>>, <<>>, PingMenu)

Next == Pipeline \/ Reader \/ Commands \/ Device

Spec == Init /\ [][Next]_vars

\* Spec with the fairness the runtime gives: a hand-off that is ready
\* happens, a timer that is running fires, a transport write returns, and a
\* caller blocked in Lock gets the mutex once it is free.  Every step records
\* history, so no behaviour repeats a state and weak fairness of the union of
\* these steps is all that the fairness of each of them adds.
Runtime ==
    \/ DecodeType \/ DecodeLength \/ DecodeBody \/ DecodeSend
    \/ ReadReportRecv
    \/ \E c \in Callers :
          Lock(c) \/ Write(c) \/ WriteFail(c) \/ CmdRecv(c) \/ CmdTimeout(c)

Fairness == WF_vars(Runtime)

LiveSpec == Init /\ [][Next]_vars /\ Fairness

\* One caller making calls of one typed operation with arguments at and
\* beyond the edges of their ranges, while the other caller clears the display.
Rows(b) == [k \in 1..8 |-> b]
Bytes(n) == [k \in 1..n |-> 65]

ApiCalls ==
    {Mk("Ping", 0, 0, FALSE, Bytes(n)) : n \in {0, 16, 17}}
    \cup {Mk("SetCharacter", a, 0, FALSE, d) :
              a \in {-1, 0, 7, 8}, d \in {Rows(63), Rows(64), [Rows(0) EXCEPT ![8] = 128]}}
    \cup {Mk("SetBacklight", a, b, FALSE, <<>>) : a \in {-1, 0, 100, 101}, b \in {-1, 0, 100, 101}}
    \cup {Mk("Put", a, b, FALSE, d) :
              a \in {-1, 0, 19, 20}, b \in {-1, 0, 3, 4}, d \in {Bytes(1), Bytes(3)}}
    \cup {Mk("SetLED", a, b, g, <<>>) :
              a \in {-1, 0, 3, 4}, b \in {-1, 0, 100, 101}, g \in BOOLEAN}

ApiInit ==
    \E call \in ApiCalls :
        InitWith(<<>>, <<>>, [c \in Callers |-> IF c = 1 THEN {call}
                                               ELSE {Mk("Clear", 0, 0, FALSE, <<>>)}])

ApiNext == Pipeline \/ Commands \/ DeviceAnswer

ApiSpec == ApiInit /\ [][ApiNext]_vars

\* One caller making calls of one operation with arguments in range, one
\* after the other, and a device whose answers may be wrong.
\* RawCommand is called with payloads of 22 and of 23 bytes.
FaultyCalls ==
    {Mk("Ping", 0, 0, FALSE, <<>>),
     Mk("Ping", 0, 0, FALSE, <<1, 2>>),
     Mk("Clear", 0, 0, FALSE, <<>>),
     Mk("SetCharacter", 7, 0, FALSE, Rows(63)),
     Mk("SetBacklight", 100, 0, FALSE, <<>>),
     Mk("Put", 0, 3, FALSE, Bytes(20)),
     Mk("Put", 18, 0, FALSE, <<65, 66, 67>>),
     Mk("Put", 19, 2, FALSE, <<65, 66, 67>>),
     Mk("Put", 1, 1, FALSE, [k \in 1..21 |-> 64 + k]),
     Mk("SetLED", 3, 100, TRUE, <<>>),
     Mk("RawCommand", 1, 0, FALSE, Bytes(22)),
     Mk("RawCommand", 1, 0, FALSE, Bytes(23))}

FaultyInit ==
    \E call \in FaultyCalls :
        InitWith(<<>>, <<>>, [c \in Callers |-> IF c = 1 THEN {call} ELSE {}])

FaultyNext == Pipeline \/ Commands \/ DeviceAnswer \/ DeviceAnswerWrong

FaultySpec == FaultyInit /\ [][FaultyNext]_vars

\* Update called with a pair of display states: old is the cleared display or
\* a display with text, new is old with some cells of each row set to 'A'.
\* Every Put runs through RawCommand, so it can time out, fail to write or get
\* a wrong answer.
ClearedLCDState == [y \in 1..LCDRows |-> [x \in 1..LCDCols |-> 32]]
TextLCDState == [y \in 1..LCDRows |-> [x \in 1..LCDCols |-> IF x = 4 THEN 65 ELSE 48 + y]]

\* The columns an edit sets to 'A' in a row: rows 0 and 1 take any of
\* RowEdits, rows 2 and 3 are left alone or set whole.
RowEdits == {{}, {0}, {19}, {3, 7}, 0..19}
WholeRowEdits == {{}, 0..19}

EditRows(s, e) ==
    [y \in 1..LCDRows |->
        [x \in 1..LCDCols |-> IF (x - 1) \in e[y] THEN 65 ELSE s[y][x]]]

UpdateInit ==
    \E s \in {ClearedLCDState, TextLCDState} :
        \E e \in [1..LCDRows -> RowEdits] :
            /\ e[3] \in WholeRowEdits
            /\ e[4] \in WholeRowEdits
            /\ Connected(<<>>, <<>>, [c \in Callers |-> {}])
            /\ upd = [pc |-> "call", old |-> s, new |-> EditRows(s, e), y |-> 0,
                      puts |-> <<>>, ret |-> "none"]
            /\ eof = FALSE
            /\ trip = NoTrip
            /\ enc = NoEncode

Updating == UpdateCall \/ UpdateRow \/ UpdateReturn

UpdateNext ==
    \/ Pipeline
    \/ Updating
    \/ \E c \in Callers : Lock(c) \/ Write(c) \/ WriteFail(c) \/ CmdRecv(c) \/ CmdTimeout(c)
    \/ DeviceAnswer
    \/ DeviceAnswerWrong

UpdateSpec == UpdateInit /\ [][UpdateNext]_vars

\* The framer alone, fed a preloaded byte stream: up to MaxPkts frames, each
\* a well-formed report or response, a report with a corrupted CRC, or a
\* frame with a too-long length byte.  A ReadReport caller consumes reports;
\* nobody issues commands.
GoodReport == KeyPkt(3)
GoodResponse == pushCRC(<<70, 0>>)
BadCrcLo == [GoodReport EXCEPT ![Len(GoodReport) - 1] = Xor16(@, 1)]
BadCrcHi == [GoodReport EXCEPT ![Len(GoodReport)] = Xor16(@, 128)]
TooLong == pushCRC(<<64, 23>> \o [k \in 1..23 |-> 1])

TestFrames == {GoodReport, GoodResponse, BadCrcLo, BadCrcHi, TooLong}

RECURSIVE Flatten(_)
Flatten(frames) ==
    IF frames = <<>> THEN <<>> ELSE Head(frames) \o Flatten(Tail(frames))

TestStreams == UNION {[1..n -> TestFrames] : n \in 1..MaxPkts}

NoMenu == [c \in Callers |-> {}]

FramerInit == \E frames \in TestStreams : InitWith(Flatten(frames), frames, NoMenu)

FramerNext == Pipeline \/ FramerTimeouts \/ Reader

FramerSpec == FramerInit /\ [][FramerNext]_vars

\* The framer and the router fed up to MaxPkts valid frames: key, fan and
\* temperature reports that decode, reports that do not (key codes 0 and 13,
\* the fan sentinel, temperature status 0, an unknown subtype), and packets
\* with each of the other three values of the top two type bits.
RouteFrames ==
    {KeyPkt(3), KeyPkt(12), KeyPkt(0), KeyPkt(13),
     pushCRC(<<129, 4, 2, 1, 0, 5>>), pushCRC(<<129, 4, 2, 0, 0, 0>>),
     pushCRC(<<130, 4, 1, 1, 16, 1>>), pushCRC(<<130, 4, 1, 1, 16, 0>>),
     pushCRC(<<131, 1, 9>>),
     pushCRC(<<70, 0>>), pushCRC(<<198, 0>>), pushCRC(<<6, 0>>)}

RouteStreams == UNION {[1..n -> RouteFrames] : n \in 1..MaxPkts}

RouteInit == \E frames \in RouteStreams : InitWith(Flatten(frames), frames, NoMenu)

RouteNext == Pipeline \/ Reader

RouteSpec == RouteInit /\ [][RouteNext]_vars

\* A transport that delivers one report of full length, with any of a range
\* of payloads, and then key reports up to MaxPkts frames in all; ReadReport
\* is called as often as it returns.
KeyCodes == 0..14 \cup {255}

FanPayloads == {<<n, t, hi, lo>> : n \in {0, 2}, t \in {0, 5}, hi \in {0, 1}, lo \in {0, 10, 255}}

TemperaturePayloads ==
    {<<n, hi, lo, st>> : n \in {1}, hi \in {0, 1, 255}, lo \in {0, 144, 255}, st \in {0, 1, 255}}

ReportFrames ==
    {KeyPkt(v) : v \in KeyCodes}
        \cup {pushCRC(<<129, 4>> \o b) : b \in FanPayloads}
        \cup {pushCRC(<<130, 4>> \o b) : b \in TemperaturePayloads}

ReportStreams ==
    {<<f>> \o [k \in 1..n |-> KeyPkt(3)] : f \in ReportFrames, n \in 0..(MaxPkts - 1)}

ReportInit == \E frames \in ReportStreams : InitWith(Flatten(frames), frames, NoMenu)

ReportSpec == ReportInit /\ [][RouteNext]_vars

\* A transport that delivers up to MaxPkts frames, reports and responses, and
\* perhaps the first bytes of one more, and then io.EOF.  A ReadReport caller
\* and a caller of Ping consume what the router delivers; the device answers
\* nothing.
CloseFrames == {GoodReport, GoodResponse}

CloseStreams == UNION {[1..n -> CloseFrames] : n \in 0..MaxPkts}

CloseTails == {SubSeq(GoodReport, 1, n) : n \in 0..2}

CloseInit ==
    \E frames \in CloseStreams, tail \in CloseTails :
        /\ Connected(Flatten(frames) \o tail, frames,
                     [c \in Callers |-> IF c = 1 THEN {Mk("Ping", 0, 0, FALSE, <<>>)} ELSE {}])
        /\ upd = NoUpdate
        /\ eof = TRUE
        /\ trip = NoTrip
        /\ enc = NoEncode

Shutdown ==
    \/ BufferEOF
    \/ DecodeClosed
    \/ RouteClosed
    \/ ReadReportNil
    \/ \E c \in Callers : CmdRecvClosed(c)

CloseNext == Pipeline \/ Reader \/ Commands \/ Shutdown

\* The goroutines are scheduled fairly, and the callers go on consuming what
\* the router delivers for as long as they have calls to make.
CloseSpec == CloseInit /\ [][CloseNext]_vars /\ WF_vars(CloseNext)

\* pushCRC then popCRC on every sequence of up to MaxLen bytes drawn from
\* CrcBytes, on the ASCII digits 1..9 and on a sequence as long as the
\* longest packet body.
CrcBytes == {0, 1, 128, 255}

CrcInputs ==
    UNION {[1..n -> CrcBytes] : n \in 0..MaxLen}
        \cup {[k \in 1..9 |-> 48 + k], [k \in 1..24 |-> (37 * k) % 256]}

CrcInit ==
    \E b \in CrcInputs :
        /\ Connected(<<>>, <<>>, NoMenu)
        /\ upd = NoUpdate
        /\ eof = FALSE
        /\ trip = [NoTrip EXCEPT !.pc = "push", !.b = b]
        /\ enc = NoEncode

CrcNext == TripPush \/ TripPop

CrcSpec == CrcInit /\ [][CrcNext]_vars

\* The same byte sequences, with one bit of pushCRC's result perhaps flipped
\* on the way to popCRC.
FlipNext == TripPush \/ TripFlip \/ TripPop

FlipSpec == CrcInit /\ [][FlipNext]_vars

\* The code points that are arms of the switch of encode1.
TableKeys ==
    {36, 64, 91, 92, 93, 94, 95, 123, 124, 125, 126, 161,
     162, 163, 164, 165, 167, 171, 176, 177, 178, 179, 181, 185,
     187, 188, 189, 191, 193, 196, 197, 198, 199, 200, 201, 202,
     205, 209, 211, 212, 214, 216, 218, 220, 221, 223, 224, 225,
     228, 229, 230, 231, 232, 233, 234, 236, 237, 241, 242, 243,
     244, 246, 248, 249, 250, 252, 253, 268, 269, 282, 283, 287,
     304, 305, 344, 345, 350, 351, 352, 353, 381, 382, 402, 425,
     487, 537, 572, 593, 603, 691, 697, 698, 700, 706, 707, 708,
     710, 712, 717, 726, 727, 730, 732, 733, 894, 915, 916, 920,
     923, 926, 928, 931, 933, 934, 936, 937, 945, 946, 948, 949,
     952, 955, 956, 960, 964, 979, 1012, 1237, 1417, 1475, 1523, 1524,
     1642, 1645, 4961, 5120, 7484, 7506, 7510, 7515, 8208, 8209, 8210, 8211,
     8216, 8217, 8218, 8220, 8221, 8226, 8228, 8242, 8243, 8249, 8250, 8260,
     8274, 8275, 8304, 8308, 8309, 8310, 8311, 8312, 8313, 8359, 8373, 8468,
     8486, 8491, 8592, 8593, 8594, 8595, 8598, 8599, 8600, 8601, 8626, 8629,
     8710, 8719, 8721, 8722, 8725, 8727, 8734, 8758, 8764, 8804, 8805, 8810,
     8811, 8901, 8962, 8963, 8983, 9001, 9002, 9166, 9195, 9196, 9204, 9205,
     9206, 9207, 9210, 9650, 9652, 9654, 9656, 9658, 9660, 9662, 9664, 9670,
     9671, 9674, 9702, 9826, 9829, 9830, 9834, 9836, 9839, 9899, 9913, 10077,
     10078, 10084, 10187, 10216, 10217, 10723, 11013, 11014, 11015, 11016, 11017, 11018,
     11019, 11044, 11104, 11105, 11106, 11107, 11110, 11111, 11112, 11113, 11152, 11157,
     11207, 11208, 11840, 12291, 12296, 12297, 12298, 12299, 12300, 12301, 12316, 12448,
     42889, 42890, 42892, 65374, 65936, 65937, 66434, 119136, 128153, 128154, 128155, 128156,
     128276, 128308, 128365, 128420, 129008, 129294, 129505}

\* Strings to transliterate: every code point up to U+017F, every code point
\* of the switch with its two neighbours, the ends of the planes and of the
\* surrogate gap, the replacement character and an emoji, each as a string of
\* one code point; and the strings of up to MaxLen code points over 'A', '$',
\* U+00DF, U+03B2, U+FFFD and U+1F600.
CodePoints ==
    (0..383) \cup TableKeys \cup {k + 1 : k \in TableKeys} \cup {k - 1 : k \in TableKeys}
        \cup {55295, 57344, 65532, 65533, 65534, 65535, 65536, 128512, 1114111}

EncodeAlphabet == {65, 36, 223, 946, 65533, 128512}

EncodeInputs ==
    {<<c>> : c \in CodePoints} \cup UNION {[1..n -> EncodeAlphabet] : n \in 0..MaxLen}

EncodeInit ==
    \E src \in EncodeInputs :
        /\ Connected(<<>>, <<>>, NoMenu)
        /\ upd = NoUpdate
        /\ eof = FALSE
        /\ trip = NoTrip
        /\ enc = [NoEncode EXCEPT !.pc = "run", !.src = src, !.rest = src]

EncodeNext == Transform \/ TransformEnd

EncodeSpec == EncodeInit /\ [][EncodeNext]_vars

\* A transport that delivers one CRC-valid report whose length byte is
\* smaller than its subtype needs, or just what it needs, or more, and then
\* key reports up to MaxPkts frames in all; ReadReport is called as often as
\* it returns.
ShortFrames ==
    {pushCRC(<<128, 0>>), pushCRC(<<128, 1, 3>>), pushCRC(<<128, 2, 3, 9>>),
     pushCRC(<<129, 0>>), pushCRC(<<129, 3, 2, 5, 0>>), pushCRC(<<129, 4, 2, 5, 0, 10>>),
     pushCRC(<<130, 0>>), pushCRC(<<130, 2, 1, 1>>), pushCRC(<<130, 3, 1, 1, 144>>),
     pushCRC(<<130, 4, 1, 1, 144, 1>>)}

ShortStreams ==
    {<<f>> \o [k \in 1..n |-> KeyPkt(3)] : f \in ShortFrames, n \in 0..(MaxPkts - 1)}

ShortInit == \E frames \in ShortStreams : InitWith(Flatten(frames), frames, NoMenu)

ShortSpec == ShortInit /\ [][RouteNext]_vars

\* A transport that delivers up to MaxPkts frames, each one of two key
\* reports, one of two ping responses or a report with a corrupted CRC,
\* whatever is requested; caller 1 pings and ReadReport is called as often as
\* it returns.
OrderFrames ==
    {KeyPkt(1), KeyPkt(8), pushCRC(<<64, 1, 1>>), pushCRC(<<64, 1, 2>>), BadCrcLo}

OrderStreams == UNION {[1..n -> OrderFrames] : n \in 1..MaxPkts}

OrderInit ==
    \E frames \in OrderStreams :
        InitWith(Flatten(frames), frames,
                 [c \in Callers |-> IF c = 1 THEN {Mk("Ping", 0, 0, FALSE, <<1>>)} ELSE {}])

OrderNext == Pipeline \/ Reader \/ Commands

OrderSpec == OrderInit /\ [][OrderNext]_vars

\* ----------------------------------------------------------------- claims

\* What decode has emitted: the packets it has sent on the packets channel
\* and the one it is blocked sending.
Emitted == delivered \o (IF decPc = "send" THEN <<p>> ELSE <<>>)

\* All bytes of the stream have gone through the framer.
Drained == wire = <<>> /\ bufPc = "read" /\ decPc \in {"type", "send"}

\* A frame as the wire format defines it: type, length <= 22, that many data
\* bytes, and the little-endian CRC of what precedes.
WellFormed(f) ==
    /\ Len(f) >= 4
    /\ f[2] <= 22
    /\ Len(f) = f[2] + 4
    /\ f[Len(f) - 1] + 256 * f[Len(f)] = Checksum(SubSeq(f, 1, Len(f) - 2))

\* A well-formed frame whose CRC bytes alone are changed.
CrcCorrupted(f) ==
    /\ Len(f) >= 4
    /\ f[2] <= 22
    /\ Len(f) = f[2] + 4
    /\ f[Len(f) - 1] + 256 * f[Len(f)] # Checksum(SubSeq(f, 1, Len(f) - 2))

RECURSIVE WellFormedOnly(_)
WellFormedOnly(frames) ==
    IF frames = <<>> THEN <<>>
    ELSE (IF WellFormed(Head(frames)) THEN <<Slice(Head(frames))>> ELSE <<>>)
         \o WellFormedOnly(Tail(frames))

Payloads(qs) == [k \in 1..Len(qs) |-> Slice(qs[k])]

IsPrefix(a, b) == Len(a) <= Len(b) /\ a = SubSeq(b, 1, Len(a))

\* C3 (as claimed): whenever the framer's timer fires after the type byte,
\* waiting for the length byte or for a data/CRC byte, the partial packet is
\* dropped and the framer is back at the type byte.
MidPacketTimeoutDiscards ==
    [][(DecodeLengthTimeout \/ DecodeBodyTimeout) => (decPc' = "type" /\ p' = <<>>)]_vars

\* C4: for a stream of well-formed and CRC-corrupted frames read with no
\* framer timeout, the framer emits the well-formed ones, each once, in
\* order and equal to [type, length, data...], and nothing for a corrupted
\* one; when the stream is consumed every well-formed frame has been emitted.
FramerRobust ==
    ((\A k \in 1..Len(sent) : WellFormed(sent[k]) \/ CrcCorrupted(sent[k])) /\ ~expired)
        => /\ IsPrefix(Payloads(Emitted), WellFormedOnly(sent))
           /\ Drained => Payloads(Emitted) = WellFormedOnly(sent)

\* C4 witness: a corrupted frame followed by a well-formed one has been read
\* without a timeout and exactly the second was handed to the router.
FramerRobustWitness ==
    /\ Len(sent) = 2
    /\ CrcCorrupted(sent[1])
    /\ WellFormed(sent[2])
    /\ ~expired
    /\ Drained
    /\ Payloads(delivered) = <<Slice(sent[2])>>

InFlight == {c \in Callers : pc[c] \in {"write", "select"}}

\* The calls that wrote their request and have returned.
RECURSIVE Wrote(_)
Wrote(rs) ==
    IF rs = <<>> THEN 0
    ELSE (IF Head(rs).raw.err \in {"nil", "ErrTimeout", "ErrFailed"} THEN 1 ELSE 0)
         + Wrote(Tail(rs))

\* C1: at most one caller is between taking the lock and returning, and it
\* holds mu; the requests written exceed the calls that have returned after
\* writing by at most the one call that is waiting for its response.
SingleFlight ==
    /\ Cardinality(InFlight) <= 1
    /\ \A c \in InFlight : mu = c
    /\ Len(written) - (Wrote(results[1]) + Wrote(results[2]))
          = Cardinality({c \in Callers : pc[c] = "select"})

\* C1 witness: one caller waits for its response while the other is blocked
\* in Lock.
SingleFlightWitness ==
    \E c, d \in Callers : pc[c] = "select" /\ pc[d] = "lock" /\ Len(written) = 1

\* The response the device produces for a call's request, as RawCommand
\* returns it.
OwnResponse(r) ==
    RawResult(DeviceResponse(RequestPacket(Request(r.call).req, Request(r.call).reqP)))

\* C2 (as claimed): while the device has answered every request before the
\* request's timeout (and it sends no unsolicited response), every response a
\* call returns is the response to that call's own request.
CorrectPairing ==
    ~late =>
        \A c \in Callers : \A k \in 1..Len(results[c]) :
            results[c][k].raw.err = "nil" => results[c][k].raw = OwnResponse(results[c][k])

\* C6 (as claimed): a report nobody is reading never holds back a response a
\* RawCommand is waiting for, and a response nobody is waiting for never
\* holds back a report a ReadReport call is waiting for.
IndependentDelivery ==
    /\ ~(/\ rtPc = "sendReport" /\ rdPc = "idle"
         /\ decPc = "send" /\ ~IsReportType(p[1])
         /\ \E c \in Callers : pc[c] = "select")
    /\ ~(/\ rtPc = "sendResponse" /\ \A c \in Callers : pc[c] # "select"
         /\ decPc = "send" /\ IsReportType(p[1])
         /\ rdPc = "recv")

\* C7: a ReadReport call that is waiting takes the report the router offers
\* whoever holds mu, and a command that is waiting takes the response the
\* router offers.
ReadReportLockFree ==
    /\ (rdPc = "recv" /\ rtPc = "sendReport") => ENABLED ReadReportRecv
    /\ rdPc = "idle" => ENABLED ReadReportCall
    /\ \A c \in Callers : (pc[c] = "select" /\ rtPc = "sendResponse") => ENABLED CmdRecv(c)

\* C7 witness: the device sent a report and then the response to the only
\* request; ReadReport returned the report while the caller was waiting with
\* the lock held, and the caller then returned its own response.
ReadReportLockFreeWitness ==
    \E c \in Callers :
        /\ Len(sent) = 2
        /\ IsReportType(sent[1][1])
        /\ Len(got) = 1
        /\ got[1].during = c
        /\ Len(results[c]) = 1
        /\ results[c][1].raw.err = "nil"
        /\ results[c][1].raw = OwnResponse(results[c][1])

Last(sq) == sq[Len(sq)]

\* C9: a response the router is offering stays offered, unchanged, until a
\* RawCommand call receives it; a call that returns while it is offered
\* returns that response, whichever request it answers; and a command
\* timeout changes nothing in buffer, decode or route.
LateResponsePending ==
    [][/\ rtPc = "sendResponse" =>
            \/ rtPc' = "sendResponse" /\ rtMsg' = rtMsg
            \/ \E c \in Callers :
                  /\ pc[c] = "select"
                  /\ pc'[c] = "idle"
                  /\ Last(results'[c]).raw = RawResult(rtMsg)
       /\ \A c \in Callers :
            (rtPc = "sendResponse" /\ pc[c] = "select" /\ pc'[c] = "idle")
                => Last(results'[c]).raw = RawResult(rtMsg)
       /\ \A c \in Callers :
            (pc[c] = "select" /\ pc'[c] = "idle" /\ Last(results'[c]).raw.err = "ErrTimeout")
                => UNCHANGED <<pipeVars, routeVars>>]_vars

\* C9 witness: one call timed out before the device had answered, and the
\* other caller's call then returned the response to the first call's request.
LateResponsePendingWitness ==
    \E c, d \in Callers :
        /\ c # d
        /\ late
        /\ Len(results[c]) = 1
        /\ results[c][1].raw.err = "ErrTimeout"
        /\ Len(results[d]) = 1
        /\ results[d][1].raw.err = "nil"
        /\ results[d][1].raw = OwnResponse(results[c][1])
        /\ results[d][1].raw # OwnResponse(results[d][1])

\* C8: a caller blocked in Lock gets the lock, and a call that has written
\* its request returns and releases the lock, by a response or else by
\* ErrTimeout, whether or not the device answers.
CommandTerminates ==
    \A c \in Callers :
        /\ (pc[c] = "lock") ~> (pc[c] = "write")
        /\ (pc[c] = "select") ~> (pc[c] = "idle" /\ mu # c)

\* C8 witness: the device has not answered the one request written, that
\* call has returned ErrTimeout, and the caller that was waiting for the lock
\* holds it.
CommandTerminatesWitness ==
    \E c, d \in Callers :
        /\ devQ # <<>>
        /\ sent = <<>>
        /\ Len(written) = 1
        /\ Len(results[c]) = 1
        /\ results[c][1].err = "ErrTimeout"
        /\ pc[d] = "write"
        /\ mu = d

\* The errors the claim allows for a call whose arguments are out of range.
RangeErrors(call) ==
    CASE call.op = "Ping" -> IF Len(call.data) > 16 THEN {"ErrPayloadTooLarge"} ELSE {}
      [] call.op = "SetCharacter" ->
            (IF call.a \notin 0..7 THEN {"ErrCGRAM"} ELSE {})
            \cup (IF \E k \in 1..Len(call.data) : call.data[k] >= 64 THEN {"ErrSprite"} ELSE {})
      [] call.op = "SetBacklight" ->
            IF call.a \notin 0..100 \/ call.b \notin 0..100 THEN {"ErrBacklight"} ELSE {}
      [] call.op = "Put" ->
            IF call.a \notin 0..19 \/ call.b \notin 0..3 THEN {"ErrPosition"} ELSE {}
      [] call.op = "SetLED" ->
            (IF call.a \notin 0..3 THEN {"ErrLEDIndex"} ELSE {})
            \cup (IF call.b \notin 0..100 THEN {"ErrLEDDuty"} ELSE {})
      [] OTHER -> {}

\* C10: a call with an argument out of range returns, in the step that makes
\* it, one of the errors of the ranges it breaks, and that step writes
\* nothing to the transport, leaves the lock and the router as they are and
\* hands nothing to the device; a call with all arguments in range returns
\* none of these errors.
ValidationFirst ==
    [][\A c \in Callers :
          Len(results'[c]) > Len(results[c]) =>
              LET r == Last(results'[c]) IN
              IF RangeErrors(r.call) # {}
              THEN /\ r.err \in RangeErrors(r.call)
                   /\ pc[c] = "idle"
                   /\ pc'[c] = "idle"
                   /\ UNCHANGED <<written, mu, devQ, routeVars, pipeVars>>
              ELSE r.err \in {"nil", "ErrFailed", "ErrTimeout", "write error"}]_vars

\* C10 witness: a Put at column 20 has returned ErrPosition while the other
\* caller holds the lock and waits for its response; only that caller's
\* request was written.
ValidationFirstWitness ==
    /\ Len(results[1]) = 1
    /\ results[1][1].call.op = "Put"
    /\ results[1][1].call.a = 20
    /\ results[1][1].err = "ErrPosition"
    /\ pc[2] = "select"
    /\ mu = 2
    /\ Len(written) = 1

TypedOps == {"Ping", "Clear", "SetCharacter", "SetBacklight", "Put", "SetLED"}

\* The request code of each typed operation.
ReqCode(op) ==
    CASE op = "Ping" -> 0
      [] op = "Clear" -> 6
      [] op = "SetCharacter" -> 9
      [] op = "SetBacklight" -> 14
      [] op = "Put" -> 31
      [] op = "SetLED" -> 34

\* What the calls made so far returned.
Returned == UNION {{results[c][k] : k \in 1..Len(results[c])} : c \in Callers}

\* The result r carries the one response its operation accepts.
Accepts(r) ==
    /\ r.raw.err = "nil"
    /\ r.raw.resp = ReqCode(r.call.op) + 64
    /\ r.raw.respP = (IF r.call.op = "Ping" THEN r.call.data ELSE <<>>)

\* C11: a typed operation that got past validation sends its own request
\* code, returns nil exactly when the response has that code | 0x40 and the
\* expected payload (the echoed payload for Ping, none otherwise), returns
\* ErrFailed for any other response, and passes on RawCommand's error.
ResponseChecked ==
    /\ \A c \in Callers :
          (pc[c] # "idle" /\ cur[c].call.op \in TypedOps)
              => cur[c].pkt[1] = ReqCode(cur[c].call.op)
    /\ \A r \in Returned :
          (r.call.op \in TypedOps /\ r.raw.err # "none")
              => /\ r.err = "nil" <=> Accepts(r)
                 /\ (r.raw.err = "nil" /\ ~Accepts(r)) => r.err = "ErrFailed"
                 /\ r.raw.err # "nil" => r.err = r.raw.err
                 /\ r.err \in {"nil", "ErrFailed", "ErrTimeout", "write error"}

\* C11 witness: a Ping answered with the right code and another payload
\* returned ErrFailed.
ResponseCheckedWitness ==
    \E r \in Returned :
        /\ r.call.op = "Ping"
        /\ r.raw.err = "nil"
        /\ r.raw.resp = 64
        /\ r.raw.respP # r.call.data
        /\ r.err = "ErrFailed"

\* C12 (as claimed): every request packet written to the transport is
\* [code, n, payload..., crc_lo, crc_hi] with n the number of payload bytes,
\* n <= 22, and so at most maxPacketBytes bytes.
RequestWellFormed ==
    \A k \in 1..Len(written) :
        LET w == written[k] IN
        /\ Len(w) >= 4
        /\ w[2] = Len(w) - 4
        /\ w[2] <= 22
        /\ Len(w) <= maxPacketBytes
        /\ popCRC(w).ok

\* The columns in which the rows o and n differ.
DiffCols(o, n) == {x \in 0..(LCDCols - 1) : o[x + 1] # n[x + 1]}

Least(S) == CHOOSE x \in S : \A z \in S : x <= z
Greatest(S) == CHOOSE x \in S : \A z \in S : x >= z

\* The one write that row y needs: from its first differing column through
\* its last.
RowWrite(old, new, y) ==
    LET D == DiffCols(old[y + 1], new[y + 1])
    IN Mk("Put", Least(D), y, FALSE, SubSeq(new[y + 1], Least(D) + 1, Greatest(D) + 1))

\* The writes that rows y and after need, in increasing row order.
RECURSIVE RowWrites(_, _, _)
RowWrites(old, new, y) ==
    IF y = LCDRows THEN <<>>
    ELSE (IF old[y + 1] = new[y + 1] THEN <<>> ELSE <<RowWrite(old, new, y)>>)
         \o RowWrites(old, new, y + 1)

\* The write command for a Put of data at (col, row), before its CRC.
WriteBody(call) == <<31, 2 + Len(call.data), call.a, call.b>> \o call.data

\* C13: the Puts Update has issued are at every moment the first of the
\* writes the differing rows need, one per differing row in increasing row
\* order, each from the first through the last differing column of new; an
\* Update that returns nil has issued all of them; and the transport has seen
\* exactly their write commands, each at most once.
DiffMinimal ==
    upd.pc # "none" =>
        /\ IsPrefix(upd.puts, RowWrites(upd.old, upd.new, 0))
        /\ (upd.pc = "done" /\ upd.ret = "nil") => upd.puts = RowWrites(upd.old, upd.new, 0)
        /\ Len(written) <= Len(upd.puts)
        /\ \A k \in 1..Len(written) : Slice(written[k]) = WriteBody(upd.puts[k])

\* C13 witness: an Update of two rows that differ from old in columns 3 and 7
\* only, and of one that differs in every column, has returned nil.
DiffMinimalWitness ==
    /\ upd.pc = "done"
    /\ upd.ret = "nil"
    /\ Len(written) = 3
    /\ DiffCols(upd.old[1], upd.new[1]) = {3, 7}
    /\ DiffCols(upd.old[2], upd.new[2]) = {3, 7}
    /\ upd.old[3] = upd.new[3]

\* The display after the device has executed the write command w on the
\* display d: the data replace the cells from (col, row) on.
ApplyWrite(d, w) ==
    IF w[1] # 31 \/ w[2] < 2 THEN d
    ELSE LET col == w[3]
             row == w[4]
             n == w[2] - 2
         IN IF row >= LCDRows \/ col + n > LCDCols THEN d
            ELSE [d EXCEPT ![row + 1] =
                     [x \in 1..LCDCols |->
                         IF x - 1 >= col /\ x - 1 < col + n THEN w[4 + x - col] ELSE @[x]]]

\* The display after the device has executed the request packets ws in order.
RECURSIVE Display(_, _)
Display(d, ws) ==
    IF ws = <<>> THEN d ELSE Display(ApplyWrite(d, Head(ws)), Tail(ws))

\* C14: when Update has returned nil, a device display that held old before
\* the call holds new after the requests written to the transport.
DiffCorrect ==
    (upd.pc = "done" /\ upd.ret = "nil") => Display(upd.old, written) = upd.new

\* C14 witness: an Update that changed all four rows of a display with text
\* has returned nil.
DiffCorrectWitness ==
    /\ upd.pc = "done"
    /\ upd.ret = "nil"
    /\ upd.old = TextLCDState
    /\ Len(written) = 4
    /\ DiffCols(upd.old[1], upd.new[1]) = {7}

\* C15: an Update whose old and new states are equal writes nothing, calls no
\* Put and takes no lock, and returns nil.
UpdateIdempotent ==
    (upd.pc # "none" /\ upd.old = upd.new) =>
        /\ written = <<>>
        /\ upd.puts = <<>>
        /\ upd.pc \in {"call", "done"}
        /\ upd.ret \in {"none", "nil"}
        /\ upd.pc = "done" => upd.ret = "nil"
        /\ pc[Updater] = "idle"
        /\ mu = NoOne

\* C15 witness: Update of a display with text to an equal state has returned.
UpdateIdempotentWitness ==
    /\ upd.pc = "done"
    /\ upd.old = upd.new
    /\ upd.old = TextLCDState
    /\ upd.ret = "nil"

\* The write command, before its CRC, of a Put whose data are cut to the
\* columns left in the row.
TruncatedWrite(call) ==
    LET room == LCDCols - call.a
        k == IF Len(call.data) < room THEN Len(call.data) ELSE room
    IN <<31, 2 + k, call.a, call.b>> \o SubSeq(call.data, 1, k)

\* The Put calls of the callers' menus.
PutCalls == {call \in UNION {menu[c] : c \in Callers} : call.op = "Put"}

\* The write commands among the requests written.
WriteCommands == {k \in 1..Len(written) : written[k][1] = 31}

\* C16: the request of a Put with valid col and row is one write command for
\* (col, row) carrying the first min(len(data), 20 - col) bytes of data; the
\* write commands on the transport are these and no others, one per Put that
\* wrote; and on the display they touch only the cells of that row from col on.
PutTruncates ==
    /\ \A c \in Callers :
          (pc[c] # "idle" /\ cur[c].call.op = "Put")
              => Slice(cur[c].pkt) = TruncatedWrite(cur[c].call)
    /\ \A k \in WriteCommands : \E call \in PutCalls : Slice(written[k]) = TruncatedWrite(call)
    /\ (PutCalls # {}) =>
          Cardinality(WriteCommands)
              = Wrote(results[1]) + Cardinality({c \in {1} : pc[c] = "select"})
    /\ \A call \in PutCalls :
          \A d \in {Display(ClearedLCDState, written)} :
              \A y \in 1..LCDRows : \A x \in 1..LCDCols :
                  d[y][x] # 32 => (y = call.b + 1 /\ x - 1 >= call.a)

\* C16 witness: a Put of three bytes at column 18 has sent the first two and
\* returned nil.
PutTruncatesWitness ==
    /\ Len(results[1]) = 1
    /\ results[1][1].call = Mk("Put", 18, 0, FALSE, <<65, 66, 67>>)
    /\ results[1][1].err = "nil"
    /\ Len(written) = 1
    /\ SubSeq(written[1], 1, 6) = <<31, 4, 18, 0, 65, 66>>
    /\ Len(written[1]) = 8

\* C19: a step appends at most one packet to the requests written, the
\* request of a caller that passes from its Write to its select; the step in
\* which a call returns, whatever it returns, writes nothing; the requests
\* written never outnumber the calls made; and Update calls Put for a row at
\* most once.
NoRetry ==
    [][/\ \/ written' = written
          \/ \E c \in Callers :
                /\ pc[c] = "write"
                /\ pc'[c] = "select"
                /\ written' = Append(written, cur[c].pkt)
       /\ \A c \in Callers :
             (pc[c] # "idle" /\ pc'[c] = "idle") => written' = written
       /\ Len(written') <= NCalls'
       /\ \A j, k \in 1..Len(upd'.puts) : j < k => upd'.puts[j].b < upd'.puts[k].b]_vars

\* C19 witness: the second Put of an Update failed and Update returned the
\* error with two requests written.
NoRetryWitness ==
    /\ upd.pc = "done"
    /\ upd.ret \in {"ErrTimeout", "ErrFailed"}
    /\ Len(upd.puts) = 2
    /\ Len(written) = 2
    /\ Cardinality(DiffCols(upd.old[3], upd.new[3])) = LCDCols

\* The type byte of the frame f has top two bits 0b10.
ReportTag(f) == f[1] >= 128 /\ f[1] < 192

\* A report frame that decodes: a key code in 1..12, a fan speed other than
\* the hardware-absent sentinel, a temperature with a non-zero status.
Decodable(f) ==
    \/ f[1] = 128 /\ f[3] >= 1 /\ f[3] <= 12
    \/ f[1] = 129 /\ ~(f[4] = 0 /\ f[5] = 0 /\ f[6] = 0)
    \/ f[1] = 130 /\ f[6] # 0

\* The reports ReadReport is due from the frames, in order: those of the
\* decodable report frames that precede the first response, which nobody
\* takes here.
RECURSIVE DueReports(_)
DueReports(frames) ==
    IF frames = <<>> \/ ~ReportTag(Head(frames)) THEN <<>>
    ELSE (IF Decodable(Head(frames)) THEN <<decodeReport(Head(frames)).r>> ELSE <<>>)
         \o DueReports(Tail(frames))

\* The first frame that is not a report, if any.
RECURSIVE FirstResponse(_)
FirstResponse(frames) ==
    IF frames = <<>> THEN <<>>
    ELSE IF ReportTag(Head(frames)) THEN FirstResponse(Tail(frames))
    ELSE Head(frames)

\* C18: the router never offers a packet with a report tag as a response nor
\* any other packet as a report: the response it offers is the first frame
\* without the tag, the reports ReadReport has returned are the first of those
\* due from the decodable report frames, and once every frame has gone through
\* the router, all of them were reports and all those due were returned, the
\* undecodable ones having delivered nothing.
RoutedByTag ==
    /\ Alive
    /\ rtPc = "sendResponse" => (~ReportTag(rtMsg) /\ rtMsg = FirstResponse(sent))
    /\ rtPc = "sendReport" => FirstResponse(SubSeq(sent, 1, Len(delivered))) = <<>>
    /\ IsPrefix([k \in 1..Len(got) |-> got[k].r], DueReports(sent))
    /\ (Drained /\ decPc = "type" /\ rtPc = "recv")
          => /\ \A k \in 1..Len(sent) : ReportTag(sent[k])
             /\ Len(got) = Len(DueReports(sent))

\* C18 witness: a fan-speed report with the sentinel has delivered nothing and
\* the key report after it has been returned by ReadReport.
RoutedByTagWitness ==
    /\ sent = <<pushCRC(<<129, 4, 2, 0, 0, 0>>), KeyPkt(12)>>
    /\ Len(got) = 1
    /\ got[1].r = [t |-> "KeyActivity", K |-> 6, Pressed |-> FALSE]
    /\ rtPc = "recv"

\* CRC-16/X-25 bit by bit: the register starts at 0xFFFF, each byte is xored
\* into its low bits and the register shifted right eight times, xoring
\* 0x8408 in whenever a 1 falls out; the result is the complement.
RECURSIVE X25Register(_, _)
X25Register(reg, data) ==
    IF data = <<>> THEN reg
    ELSE CHOOSE v \in {X25Register(x, Tail(data)) :
                           x \in {crcShift(Xor16(reg, Head(data)), 8)}} : TRUE

X25(data) == 65535 - X25Register(65535, data)

\* C20: pushCRC(b) is b followed by the low and then the high byte of the
\* CRC-16/X-25 of b, and popCRC of it returns (b, true).
CrcRoundTrip ==
    /\ trip.pc \in {"pop", "done"} =>
          trip.pushed = trip.b \o <<X25(trip.b) % 256, X25(trip.b) \div 256>>
    /\ trip.pc = "done" => (trip.popped = trip.b /\ trip.ok)

\* C20 witness: the round trip of "123456789", whose CRC-16/X-25 is 0x906E.
CrcRoundTripWitness ==
    /\ trip.pc = "done"
    /\ trip.b = [k \in 1..9 |-> 48 + k]
    /\ trip.pushed = trip.b \o <<110, 144>>
    /\ trip.ok

\* The three goroutines of Connect have ended.
Terminated == bufPc = "done" /\ decPc = "done" /\ rtPc = "done"

\* The router is blocked on a response that no call is left to take.
Unconsumed ==
    /\ rtPc = "sendResponse"
    /\ NCalls = MaxCalls
    /\ \A c \in Callers : pc[c] = "idle"

\* C17: once the read of the transport has reached the end of input, buffer,
\* decode and route end, unless the router stays blocked on a delivery that is
\* never consumed; none of them runs again after it has ended; once route has
\* ended no packet is handed on, ReadReport returns nil and no command gets a
\* response; and a ReadReport call does return nil then.
InputExhaustion ==
    /\ (wire = <<>> /\ eof) ~> (Terminated \/ Unconsumed)
    /\ Terminated ~> (rdPc = "closed")
    /\ [][/\ bufPc = "done" => bufPc' = "done"
          /\ decPc = "done" => (decPc' = "done" /\ delivered' = delivered)
          /\ rtPc = "done" =>
                /\ rtPc' = "done"
                /\ got' # got => Last(got').r = NilReport
                /\ \A c \in Callers :
                      results'[c] # results[c] => Last(results'[c]).raw.err # "nil"]_vars

\* C17 witness: after a report and a response, both consumed, and the first
\* bytes of a third packet, the three goroutines have ended and ReadReport has
\* returned nil.
InputExhaustionWitness ==
    /\ Terminated
    /\ sent = <<GoodReport, GoodResponse>>
    /\ Len(delivered) = 2
    /\ Len(got) = 2
    /\ got[2].r = NilReport
    /\ rdPc = "closed"
    /\ \E c \in Callers : Len(results[c]) >= 1 /\ results[c][1].raw.err = "nil"

\* C21: popCRC rejects pushCRC(b) with any one bit flipped, in the data or in
\* either CRC byte.
CorruptionDetected ==
    (trip.pc = "done" /\ trip.bit # -1) => ~trip.ok

\* C21 witness: "123456789" with a bit of its second CRC byte flipped has been
\* rejected, and so has a sequence with a bit of its data flipped.
CorruptionDetectedWitness ==
    /\ trip.pc = "done"
    /\ ~trip.ok
    /\ \/ trip.b = [k \in 1..9 |-> 48 + k] /\ trip.bit \div 8 = 10
       \/ trip.b = <<1, 128, 255>> /\ trip.bit = 8

\* What the key code v is to be reported as: nothing, or one KeyActivity.
KeyReading(v) ==
    IF v \in 1..6 THEN <<[t |-> "KeyActivity", K |-> v, Pressed |-> TRUE]>>
    ELSE IF v \in 7..12 THEN <<[t |-> "KeyActivity", K |-> v - 6, Pressed |-> FALSE]>>
    ELSE <<>>

\* What the fan-speed payload [n, t, hi, lo] is to be reported as.
FanReading(n, t, hi, lo) ==
    IF t = 0 /\ hi = 0 /\ lo = 0 THEN <<>>
    ELSE <<[t |-> "FanSpeed", N |-> n, TachCycles |-> t, TimerTicks |-> 256 * hi + lo]>>

\* What the temperature payload [n, hi, lo, status] is to be reported as,
\* sixteen times the Celsius value being the big-endian raw value.
TemperatureReading(n, hi, lo, status) ==
    IF status = 0 THEN <<>>
    ELSE <<[t |-> "Temperature", N |-> n, Celsius16 |-> 256 * hi + lo]>>

\* The reports due from the key reports that follow the first frame.
KeyReadings(frames) ==
    IF Len(frames) <= 1 THEN <<>> ELSE [k \in 1..(Len(frames) - 1) |-> KeyReading(3)[1]]

\* The reports ReadReport has returned.
GotReports == [k \in 1..Len(got) |-> got[k].r]

\* Every frame has gone through the router.
AllRouted == Drained /\ decPc = "type" /\ rtPc = "recv"

\* ReadReport returns the reports of the sequence due, in order, and has
\* returned all of them once every frame has gone through the router.
ReportsAre(due) ==
    /\ IsPrefix(GotReports, due)
    /\ AllRouted => GotReports = due

\* C22: a key-activity packet with code v in 1..6 is reported as key v
\* pressed, with v in 7..12 as key v-6 released, and with any other code is
\* reported as nothing; a reported key is always in 1..6.
KeyActivityDecoded ==
    /\ (sent[1][1] = 128) => ReportsAre(KeyReading(sent[1][3]) \o KeyReadings(sent))
    /\ \A k \in 1..Len(got) : got[k].r.t = "KeyActivity" => got[k].r.K \in 1..6

\* C22 witness: code 12 has been reported as key 6 released.
KeyActivityDecodedWitness ==
    /\ sent[1] = KeyPkt(12)
    /\ Len(got) >= 1
    /\ got[1].r = [t |-> "KeyActivity", K |-> 6, Pressed |-> FALSE]

\* C23: a fan-speed packet [n, t, hi, lo] is reported as FanSpeed{n, t,
\* 256*hi+lo}, except that t = hi = lo = 0 is reported as nothing.
FanSpeedDecoded ==
    (sent[1][1] = 129) =>
        ReportsAre(FanReading(sent[1][3], sent[1][4], sent[1][5], sent[1][6])
                       \o KeyReadings(sent))

\* C23 witness: [2,5,0,10] has been reported as sensor 2, tach 5, ticks 10,
\* or [2,0,0,0] has gone through the router and the key report after it is
\* the first report returned.
FanSpeedDecodedWitness ==
    \/ /\ sent[1] = pushCRC(<<129, 4, 2, 5, 0, 10>>)
       /\ Len(got) >= 1
       /\ got[1].r = [t |-> "FanSpeed", N |-> 2, TachCycles |-> 5, TimerTicks |-> 10]
    \/ /\ sent = <<pushCRC(<<129, 4, 2, 0, 0, 0>>), KeyPkt(3)>>
       /\ AllRouted
       /\ Len(got) = 1

\* C24: a temperature packet [n, hi, lo, status] with status # 0 is reported
\* as Temperature{n, Celsius} with 16 * Celsius = 256*hi + lo, and with
\* status = 0 is reported as nothing whatever the raw value.
TemperatureDecoded ==
    (sent[1][1] = 130) =>
        ReportsAre(TemperatureReading(sent[1][3], sent[1][4], sent[1][5], sent[1][6])
                       \o KeyReadings(sent))

\* C24 witness: [1,0x01,0x90,0x01] has been reported as 25 degrees (400/16).
TemperatureDecodedWitness ==
    /\ sent[1] = pushCRC(<<130, 4, 1, 1, 144, 1>>)
    /\ Len(got) >= 1
    /\ got[1].r = [t |-> "Temperature", N |-> 1, Celsius16 |-> 16 * 25]

Transliteration(c) ==
    IF c \in (32..35) \cup (37..63) \cup (65..90) \cup (97..122) THEN c
    ELSE IF c \in TableKeys THEN encode1(c)
    ELSE 96

\* C26 (as claimed): a string is transliterated without any error to one byte
\* per code point, the code point itself in the identity range, the table byte
\* for a key of the table and 0x60 for every other code point; 'A' gives 0x41,
\* U+00DF and U+03B2 give 0xBE.
Transliterated ==
    enc.pc = "done" =>
        /\ enc.err = "nil"
        /\ Len(enc.dst) = Len(enc.src)
        /\ \A k \in 1..Len(enc.src) :
              /\ enc.dst[k] = Transliteration(enc.src[k])
              /\ enc.src[k] = 65 => enc.dst[k] = 65
              /\ enc.src[k] \in {223, 946} => enc.dst[k] = 190

\* C27: a call whose Write fails returns the write error in that very step,
\* from its Write and not from its select: the step takes nothing from the
\* router, writes no request and releases the lock the caller held; and a
\* call returns the write error in no other way.
WriteErrorReturned ==
    [][\A c \in Callers :
          /\ (pc[c] = "write" /\ pc'[c] = "idle") =>
                /\ results'[c] = Append(results[c], Last(results'[c]))
                /\ Last(results'[c]).raw.err = "write error"
                /\ Last(results'[c]).err = "write error"
                /\ mu = c
                /\ mu' = NoOne
                /\ <<rtPc, rtMsg, delivered, written, devQ>>' =
                       <<rtPc, rtMsg, delivered, written, devQ>>
          /\ (results'[c] # results[c] /\ Last(results'[c]).raw.err = "write error") =>
                pc[c] = "write"]_vars

\* C27 witness: a caller's Write has failed and it has returned the error;
\* the other caller has since taken the lock, written its request and is
\* waiting for the response.
WriteErrorReturnedWitness ==
    \E c, d \in Callers :
        /\ c # d
        /\ Len(results[c]) = 1
        /\ results[c][1].err = "write error"
        /\ pc[c] = "idle"
        /\ mu = d
        /\ pc[d] = "select"
        /\ Len(written) = 1

\* The framer's own state.
framerVars == <<decPc, p, length, i, timedout, delivered, expired>>

\* C28: while the framer waits for a type byte no timer exists, and as long
\* as no byte is offered no step changes its state or discards anything; its
\* next step reads the type byte, starts the packet with it and starts the
\* timer.  The timer is started by that step alone, so it is one window per
\* packet: it runs while the length, data and CRC bytes are awaited, and a
\* timeout happens only there and only while it runs.
IdleNoTimeout ==
    [][/\ decPc = "type" => timedout = "none"
       /\ (decPc = "type" /\ bufPc # "send") => UNCHANGED framerVars
       /\ (decPc = "type" /\ decPc' # "type") =>
             /\ decPc' = "length"
             /\ p' = <<bufB>>
             /\ timedout' = "armed"
             /\ UNCHANGED <<delivered, expired>>
       /\ (timedout' = "armed" /\ timedout # "armed") => (decPc = "type" /\ decPc' = "length")
       /\ decPc' \in {"length", "body"} => timedout' \in {"armed", "drained"}
       /\ (timedout' = "drained" /\ timedout # "drained") => (timedout = "armed" /\ expired')
       /\ (expired' /\ ~expired) => (decPc \in {"length", "body"} /\ timedout = "armed")]_vars

\* C28 witness: two packets have been framed and delivered, the framer having
\* been idle before each, and no timeout has happened.
IdleNoTimeoutWitness ==
    /\ sent = <<GoodReport, GoodResponse>>
    /\ Len(delivered) = 2
    /\ decPc = "type"
    /\ timedout = "none"
    /\ ~expired

\* The responses among the valid frames, in wire order, each as the code and
\* payload RawCommand is to return for it.
RECURSIVE WireResponses(_)
WireResponses(frames) ==
    IF frames = <<>> THEN <<>>
    ELSE (IF WellFormed(Head(frames)) /\ ~ReportTag(Head(frames))
          THEN <<[err |-> "nil", resp |-> Head(frames)[1],
                  respP |-> SubSeq(Head(frames), 3, Len(Head(frames)) - 2)]>>
          ELSE <<>>) \o WireResponses(Tail(frames))

\* The key reports among the valid frames, in wire order, each as the report
\* ReadReport is to return for it.
RECURSIVE WireReports(_)
WireReports(frames) ==
    IF frames = <<>> THEN <<>>
    ELSE (IF WellFormed(Head(frames)) /\ Head(frames)[1] = 128
          THEN KeyReading(Head(frames)[3])
          ELSE <<>>) \o WireReports(Tail(frames))

\* The number of responses RawCommand calls have returned so far.
RECURSIVE NTaken(_)
NTaken(rs) ==
    IF rs = <<>> THEN 0
    ELSE (IF Head(rs).raw.err = "nil" THEN 1 ELSE 0) + NTaken(Tail(rs))

\* C29: the k-th response a RawCommand call returns, over all callers, is the
\* k-th response among the valid frames received, and the reports ReadReport
\* has returned are the first of the decodable reports among them, in order:
\* nothing is returned twice, out of order, or without having been received.
OrderPreserved ==
    [][/\ \A c \in Callers :
             (results'[c] # results[c] /\ Last(results'[c]).raw.err = "nil") =>
                 LET k == NTaken(results[1]) + NTaken(results[2]) + 1
                 IN /\ k <= Len(WireResponses(sent))
                    /\ Last(results'[c]).raw = WireResponses(sent)[k]
       /\ got' # got =>
             /\ Len(got') = Len(got) + 1
             /\ IsPrefix([k \in 1..Len(got') |-> got'[k].r], WireReports(sent))]_vars

\* C29 witness: two different responses have been returned to two successive
\* calls in their wire order, or two different reports to two successive
\* ReadReport calls.
OrderPreservedWitness ==
    \/ /\ sent = <<pushCRC(<<64, 1, 2>>), pushCRC(<<64, 1, 1>>)>>
       /\ Len(results[1]) = 2
       /\ results[1][1].raw.respP = <<2>>
       /\ results[1][2].raw.respP = <<1>>
    \/ /\ sent = <<KeyPkt(8), KeyPkt(1)>>
       /\ Len(got) = 2
       /\ got[1].r.K = 2
       /\ got[2].r.K = 1

\* What a report frame is to be reported as when only its declared data
\* bytes count: nothing when the length byte is smaller than the subtype
\* needs (1 for key activity, 4 for fan speed and temperature).
DeclaredReading(f) ==
    CASE f[1] = 128 -> IF f[2] >= 1 THEN KeyReading(f[3]) ELSE <<>>
      [] f[1] = 129 -> IF f[2] >= 4 THEN FanReading(f[3], f[4], f[5], f[6]) ELSE <<>>
      [] f[1] = 130 -> IF f[2] >= 4 THEN TemperatureReading(f[3], f[4], f[5], f[6]) ELSE <<>>
      [] OTHER -> <<>>

RECURSIVE DeclaredReadings(_)
DeclaredReadings(frames) ==
    IF frames = <<>> THEN <<>>
    ELSE DeclaredReading(Head(frames)) \o DeclaredReadings(Tail(frames))

\* C30 (as claimed): whatever the length byte of a CRC-valid report packet,
\* the router does not fault and ReadReport returns only reports built from
\* declared data bytes: a report packet too short for its subtype delivers
\* nothing and the packets after it are routed.
ShortReportsDropped ==
    /\ Alive
    /\ ReportsAre(DeclaredReadings(sent))

\* C31: the Puts Update has issued are the first of the writes its rows need,
\* in the order of the rows; each has col in 0..19, row in 0..3 and between 1
\* and 20 - col bytes, so Put neither returns ErrPosition nor truncates it;
\* only the last Put issued can have returned an error, and Update then
\* returns that error and issues no Put for a later row.
UpdateStopsAtError ==
    LET rs == results[Updater] IN
    /\ IsPrefix(upd.puts, RowWrites(upd.old, upd.new, 0))
    /\ \A k \in 1..Len(upd.puts) :
          LET c == upd.puts[k] IN
          /\ c.a \in 0..(LCDCols - 1)
          /\ c.b \in 0..(LCDRows - 1)
          /\ Len(c.data) >= 1
          /\ Len(c.data) <= LCDCols - c.a
          /\ Put(c.a, c.b, c.data).err = "nil"
          /\ Put(c.a, c.b, c.data).reqP = <<c.a, c.b>> \o c.data
    /\ Len(rs) <= Len(upd.puts)
    /\ \A k \in 1..Len(rs) :
          /\ rs[k].call = upd.puts[k]
          /\ rs[k].err # "ErrPosition"
          /\ k < Len(upd.puts) => rs[k].err = "nil"
    /\ (Len(rs) >= 1 /\ Last(rs).err # "nil" /\ upd.pc # "put") =>
          (upd.pc = "done" /\ upd.ret = Last(rs).err /\ Len(rs) = Len(upd.puts))
    /\ (upd.pc = "done" /\ upd.ret # "nil") =>
          (Len(rs) >= 1 /\ Len(rs) = Len(upd.puts) /\ upd.ret = Last(rs).err)
    /\ (upd.pc = "done" /\ upd.ret = "nil") =>
          (upd.puts = RowWrites(upd.old, upd.new, 0) /\ Len(rs) = Len(upd.puts))

\* C31 witness: rows 0, 1 and 3 differ; the Put for row 0 succeeded, the Put
\* for row 1 returned an error, Update returned it and row 3 was not written.
UpdateStopsAtErrorWitness ==
    /\ upd.pc = "done"
    /\ upd.ret # "nil"
    /\ Len(upd.puts) = 2
    /\ upd.puts[1].b = 0
    /\ upd.puts[2].b = 1
    /\ results[Updater][1].err = "nil"
    /\ results[Updater][2].err = upd.ret
    /\ Len(RowWrites(upd.old, upd.new, 0)) = 3
    /\ upd.old[3] = upd.new[3]
    /\ upd.old[4] # upd.new[4]

\* C32: no step of an Update, whether it ends with an error or not, changes a
\* cell of old or of new; and the data of the Put in progress or last
\* returned, a slice of new, still holds the bytes it was called with.
InputsUnchanged ==
    [][/\ upd'.old = upd.old
       /\ upd'.new = upd.new
       /\ upd'.puts # <<>> =>
             LET c == Last(upd'.puts)
             IN c.data = SubSeq(upd'.new[c.b + 1], c.a + 1, c.a + Len(c.data))]_vars

\* C32 witness: Update has returned, with an error or with nil, after a Put
\* whose data ended at least two cells before the end of its row, and old and
\* new differ.
InputsUnchangedWitness ==
    /\ upd.pc = "done"
    /\ upd.old # upd.new
    /\ \E k \in 1..Len(upd.puts) :
          upd.puts[k].a + Len(upd.puts[k].data) + 2 <= LCDCols
    /\ Len(results[Updater]) = Len(upd.puts)

====
